---- MODULE Spec2Model ----
(***************************************************************************)
(* A model of the voxel engine of mcrs: the chunk store (VoxelData), the   *)
(* chunk generator, the greedy mesher, the per-frame systems registered in *)
(* main (gen_chunks_data, load_chunks_around, handle_voxel_modify_queue,   *)
(* handle_chunk_meshes_update_queue, update_column_meshes,                 *)
(* create_array_texture) with their deferred commands, and the voxel       *)
(* raycaster get_intersected_voxels.                                       *)
(*                                                                         *)
(* A Vec3 and a ChunkIndex are records [x, y, z]; a ChunkColumn is a       *)
(* record [x, z]; a local voxel index is a tuple <<x, y, z>>.  Voxel       *)
(* positions that reach the edit queue are integer valued (they come from  *)
(* to_voxel_position), so they are integers here.                          *)
(***************************************************************************)
EXTENDS Integers, Sequences, FiniteSets, Bags, TLC

(***************************************************************************)
(* Sizes.  The program's world is 16-voxel chunks, 16 chunks high, seen 8  *)
(* chunks around the camera, with terrain between altitudes 48 and 128 of  *)
(* 256; the model keeps the code and scales these sizes down.              *)
(***************************************************************************)
\* voxel.rs:14 sets 16
CHUNK_SIZE == 2
\* voxel.rs:16 sets 16
CHUNK_LIMIT_Y == 2
\* lib.rs:152 sets 8
SIGHT_RANGE == 1
\* voxel.rs:13 sets 4
INIT_WORLD_SIZE == 3
\* the two altitude bounds of the terrain; voxel.rs:103 sets 48 and 128
LAND_LOW == 1
LAND_HIGH == 3
\* VoxelSettings.interact_distance, in voxels; lib.rs:153 sets 10.0
INTERACT_DISTANCE == 3
\* usize::MAX, 2^64 - 1 on the targets the engine builds for; the model keeps
\* the casts and the products of the code and narrows the width to 16 bits
USIZE_MAX == 65535
\* i32::MAX, 2^31 - 1, narrowed to 8 bits
I32_MAX == 127
\* how far (in chunks) the camera travels from its start, along -x
MaxTravel == 1
\* how many edits are submitted in a run
MaxEdits == 2
\* how many meshes one call of combine_meshes is given
MaxMeshes == 3
\* how many edits hit_voxel submits in a run
MaxClicks == 1
\* how many chunks from 0 the positions given to pos_to_voxel lie
MaxCoord == 2
\* vertex positions and thresholds given to merge_vertex are multiples of
\* 1 / WeldGrid
WeldGrid == 4
\* the largest threshold given to merge_vertex, in 1 / WeldGrid
MaxThreshold == 8
\* ray origins and ranges are multiples of 1 / RayGrid
RayGrid == 2
\* the longest range of a ray, in voxels
MaxRange == 5

Cells == (0 .. CHUNK_SIZE - 1) \X (0 .. CHUNK_SIZE - 1) \X (0 .. CHUNK_SIZE - 1)
Levels == 0 .. CHUNK_LIMIT_Y - 1

Vec3(a, b, c) == [x |-> a, y |-> b, z |-> c]
VecAdd(a, b) == [x |-> a.x + b.x, y |-> a.y + b.y, z |-> a.z + b.z]
VecMul(a, b) == [x |-> a.x * b.x, y |-> a.y * b.y, z |-> a.z * b.z]
ZERO == Vec3(0, 0, 0)
ONE == Vec3(1, 1, 1)

ColumnOf(index) == [x |-> index.x, z |-> index.z]

Abs(n) == IF n < 0 THEN -n ELSE n

\* Rust's saturating cast of a float to usize
AsUsize(v) == IF v < 0 THEN 0 ELSE IF v > USIZE_MAX THEN USIZE_MAX ELSE v

\* Rust's cast of a usize to i32, which keeps the low bits
AsI32(v) == ((v + I32_MAX + 1) % (2 * (I32_MAX + 1))) - (I32_MAX + 1)

(***************************************************************************)
(* The state of the running application.                                   *)
(***************************************************************************)
VARIABLES
    camera_pos,                 \* translation of the camera's GlobalTransform
    voxel_data,                 \* VoxelData.chunks: ChunkIndex -> ChunkData
    chunk_entities,             \* bag of the index of every Chunk entity
    chunk_meshes_update_queue,  \* ChunkMeshesUpdateQueue.queue, a HashSet
    voxel_modify_queue,         \* VoxelModifyQueue.queue, a Vec
    column_meshes,              \* keys of VoxelMeshes.columns
    column_mesh,                \* the ColumnMesh component of each column entity
    render,                     \* the Handle<Mesh> a column entity is drawn with
    voxel_material_loaded,      \* VoxelMaterial.loaded
    cmd_spawn,                  \* deferred: Chunk entities to spawn
    cmd_column_mesh,            \* deferred: ColumnMesh {dirty: true} to insert
    cmd_bundle,                 \* deferred: MaterialMeshBundle to insert
    stage,                      \* schedule the frame is in
    ran,                        \* Update systems that have run in this frame
    panicked,                   \* "" or the system whose unwrap() panicked
    edit_budget,                \* edits the player may still submit
    last_load,                  \* history: camera chunk of the last load_chunks_around
    streamed,                   \* history: last_load as consumed by gen_chunks_data
    moved,                      \* history: the camera has left its first position
    marks,                      \* history: marks of a column since the last drain
    drained_marks,              \* history: marks a column had at its last drain
    rebuilt,                    \* history: rebuilds of a column since its last drain
    dropped,                    \* history: columns whose last drain found them incomplete
    drained_edits,              \* history: the edits drained in this frame
    before_edits,               \* history: VoxelData.chunks before that drain
    ray,                        \* state of one get_intersected_voxels call
    call,                       \* state of one call of a mesher or of the generator
    scheduled,                  \* the systems the App runs in Update
    cmd_despawn,                \* deferred: entities to despawn
    evicted                     \* history: chunks remove_chunk took out of VoxelData

(***************************************************************************)
(* Terrain generation, ChunkData::new.                                     *)
(***************************************************************************)
\* Perlin::new(123).get([wx/64, wz/64, 0]) of the noise crate, in
\* hundredths: a fixed function of the horizontal position with values in
\* -100 .. 100.  The crate is not part of the repository; a fixed table
\* stands for it.
PerlinGet(wx, wz) == ((Abs(wx) * 37 + Abs(wz) * 91) % 201) - 100

\* 48.0.lerp(128.0, (val + 1.0) / 2.0) as i32
Land(wx, wz) ==
    LAND_LOW + ((LAND_HIGH - LAND_LOW) * (PerlinGet(wx, wz) + 100)) \div 200

ChunkDataNew(chunk_index) ==
    LET chunk_offset == Vec3(chunk_index.x * CHUNK_SIZE,
                             chunk_index.y * CHUNK_SIZE,
                             chunk_index.z * CHUNK_SIZE)
    IN  [level |-> 0,
         index |-> chunk_index,
         voxels |-> [c \in Cells |->
             IF AsI32(c[2] + AsUsize(chunk_offset.y))
                    > Land(c[1] + chunk_offset.x, c[3] + chunk_offset.z)
             THEN 0 ELSE 1]]

(***************************************************************************)
(* World position to chunk and local voxel index.                          *)
(***************************************************************************)
\* Rust's saturating cast of a float to i32
FloatAsI32(v) ==
    IF v < -(I32_MAX + 1) THEN -(I32_MAX + 1) ELSE IF v > I32_MAX THEN I32_MAX ELSE v

\* the quotient rounded towards zero
TruncDiv(a, b) == IF a < 0 THEN -((-a) \div b) ELSE a \div b

\* get_chunk_index with `as i32` in the place of floor()
get_chunk_index_Truncating(pos) ==
    [x |-> FloatAsI32(TruncDiv(pos.x, CHUNK_SIZE)),
     y |-> FloatAsI32(TruncDiv(pos.y, CHUNK_SIZE)),
     z |-> FloatAsI32(TruncDiv(pos.z, CHUNK_SIZE))]

\* (pos / CHUNK_SIZE).floor() as i32, per axis
get_chunk_index(pos) ==
    [x |-> FloatAsI32(pos.x \div CHUNK_SIZE),
     y |-> FloatAsI32(pos.y \div CHUNK_SIZE),
     z |-> FloatAsI32(pos.z \div CHUNK_SIZE)]

\* Rust's saturating cast of a float to u8
AsU8(v) == IF v < 0 THEN 0 ELSE IF v > 255 THEN 255 ELSE v

pos_to_voxel(pos) ==
    LET chunk_index == get_chunk_index(pos)
    IN  [chunk |-> chunk_index,
         local |-> << AsU8(pos.x - chunk_index.x * CHUNK_SIZE),
                      AsU8(pos.y - chunk_index.y * CHUNK_SIZE),
                      AsU8(pos.z - chunk_index.z * CHUNK_SIZE) >>]

(***************************************************************************)
(* Mesh buffers and the meshers.                                           *)
(***************************************************************************)
\* cube cornors, indexed from 0 in the source
CORNORS ==
    << Vec3(1, 1, 1), Vec3(0, 1, 1), Vec3(0, 0, 1), Vec3(1, 0, 1),
       Vec3(0, 1, 0), Vec3(1, 1, 0), Vec3(1, 0, 0), Vec3(0, 0, 0) >>

\* +x:0 +y:1 +z:2 -x:3 -y:4 -z:5
NORMALS ==
    << Vec3(1, 0, 0), Vec3(0, 1, 0), Vec3(0, 0, 1),
       Vec3(-1, 0, 0), Vec3(0, -1, 0), Vec3(0, 0, -1) >>

UVS == << [x |-> 1, y |-> 0], [x |-> 0, y |-> 0],
          [x |-> 0, y |-> 1], [x |-> 1, y |-> 1] >>

FRONT_FACE == [cornor_indices |-> <<0, 1, 2, 3>>, normal_index |-> 2]
BACK_FACE == [cornor_indices |-> <<4, 5, 6, 7>>, normal_index |-> 5]
LEFT_FACE == [cornor_indices |-> <<1, 4, 7, 2>>, normal_index |-> 3]
RIGHT_FACE == [cornor_indices |-> <<5, 0, 3, 6>>, normal_index |-> 0]
TOP_FACE == [cornor_indices |-> <<5, 4, 1, 0>>, normal_index |-> 1]
BOTTOM_FACE == [cornor_indices |-> <<7, 6, 3, 2>>, normal_index |-> 4]

MeshDataNew ==
    [positions |-> <<>>, indices |-> <<>>, normals |-> <<>>, uvs |-> <<>>]

add_face(mesh, face, offset, size) ==
    LET index_start == Len(mesh.positions)
    IN  [positions |-> mesh.positions \o
             [i \in 1 .. 4 |->
                 VecAdd(VecMul(CORNORS[face.cornor_indices[i] + 1], size), offset)],
         normals |-> mesh.normals \o
             [i \in 1 .. 4 |-> NORMALS[face.normal_index + 1]],
         uvs |-> mesh.uvs \o [i \in 1 .. 4 |-> UVS[i]],
         indices |-> mesh.indices \o
             << index_start, index_start + 1, index_start + 2,
                index_start + 2, index_start + 3, index_start >>]

\* a can_merge_mesh that lets any two voxels merge
can_merge_mesh_Any(voxel1, voxel2) == TRUE

can_merge_mesh(voxel1, voxel2) == voxel1 = voxel2

\* the faces default_mesh adds for the solid cell (x, y, z), in the source's
\* order: top, bottom, left, right, front, back
DefaultCell(chunk, mesh, x, y, z) ==
    LET v == chunk.voxels
        offset == VecAdd(Vec3(chunk.index.x * CHUNK_SIZE,
                              chunk.index.y * CHUNK_SIZE,
                              chunk.index.z * CHUNK_SIZE), Vec3(x, y, z))
        m1 == IF y = CHUNK_SIZE - 1 \/ (y < CHUNK_SIZE - 1 /\ v[<<x, y + 1, z>>] = 0)
              THEN add_face(mesh, TOP_FACE, offset, ONE) ELSE mesh
        m2 == IF y = 0 \/ (y > 0 /\ v[<<x, y - 1, z>>] = 0)
              THEN add_face(m1, BOTTOM_FACE, offset, ONE) ELSE m1
        m3 == IF x = 0 \/ (x > 0 /\ v[<<x - 1, y, z>>] = 0)
              THEN add_face(m2, LEFT_FACE, offset, ONE) ELSE m2
        m4 == IF x = CHUNK_SIZE - 1 \/ (x < CHUNK_SIZE - 1 /\ v[<<x + 1, y, z>>] = 0)
              THEN add_face(m3, RIGHT_FACE, offset, ONE) ELSE m3
        m5 == IF z = CHUNK_SIZE - 1 \/ (z < CHUNK_SIZE - 1 /\ v[<<x, y, z + 1>>] = 0)
              THEN add_face(m4, FRONT_FACE, offset, ONE) ELSE m4
        m6 == IF z = 0 \/ (z > 0 /\ v[<<x, y, z - 1>>] = 0)
              THEN add_face(m5, BACK_FACE, offset, ONE) ELSE m5
    IN  m6

\* the loop nest of default_mesh: y outermost, then z, then x
RECURSIVE DefaultFaces(_, _, _)
DefaultFaces(chunk, mesh, i) ==
    LET y == i \div (CHUNK_SIZE * CHUNK_SIZE)
        z == (i \div CHUNK_SIZE) % CHUNK_SIZE
        x == i % CHUNK_SIZE
    IN  IF i >= CHUNK_SIZE * CHUNK_SIZE * CHUNK_SIZE THEN mesh
        ELSE IF chunk.voxels[<<x, y, z>>] = 0
        THEN DefaultFaces(chunk, mesh, i + 1)
        ELSE DefaultFaces(chunk, DefaultCell(chunk, mesh, x, y, z), i + 1)

default_mesh(chunk) == DefaultFaces(chunk, MeshDataNew, 0)

\* The three merge passes of greedy_meshing.  Each walks its loop nest in
\* the source's order; i counts the iterations of the nest done so far.
\* the x pass without its sizes[x - 1][y][z] = Vec3::ZERO
RECURSIVE MergeX_KeepsLeft(_, _, _)
MergeX_KeepsLeft(voxels, sizes, i) ==
    LET n == CHUNK_SIZE - 1
        y == i \div (CHUNK_SIZE * n)
        z == (i \div n) % CHUNK_SIZE
        x == 1 + (i % n)
    IN  IF n = 0 \/ i >= CHUNK_SIZE * CHUNK_SIZE * n THEN sizes
        ELSE IF can_merge_mesh(voxels[<<x, y, z>>], voxels[<<x - 1, y, z>>])
        THEN MergeX_KeepsLeft(voxels,
                 [sizes EXCEPT ![<<x, y, z>>].x = @ + sizes[<<x - 1, y, z>>].x],
                 i + 1)
        ELSE MergeX_KeepsLeft(voxels, sizes, i + 1)

RECURSIVE MergeX(_, _, _)
MergeX(voxels, sizes, i) ==
    LET n == CHUNK_SIZE - 1
        y == i \div (CHUNK_SIZE * n)
        z == (i \div n) % CHUNK_SIZE
        x == 1 + (i % n)
    IN  IF n = 0 \/ i >= CHUNK_SIZE * CHUNK_SIZE * n THEN sizes
        ELSE IF can_merge_mesh(voxels[<<x, y, z>>], voxels[<<x - 1, y, z>>])
        THEN MergeX(voxels,
                 [sizes EXCEPT ![<<x, y, z>>].x = @ + sizes[<<x - 1, y, z>>].x,
                               ![<<x - 1, y, z>>] = ZERO],
                 i + 1)
        ELSE MergeX(voxels, sizes, i + 1)

RECURSIVE MergeZ(_, _, _)
MergeZ(voxels, sizes, i) ==
    LET n == CHUNK_SIZE - 1
        y == i \div (CHUNK_SIZE * n)
        x == (i \div n) % CHUNK_SIZE
        z == 1 + (i % n)
    IN  IF n = 0 \/ i >= CHUNK_SIZE * CHUNK_SIZE * n THEN sizes
        ELSE IF sizes[<<x, y, z>>] = ZERO \/ sizes[<<x, y, z - 1>>] = ZERO
        THEN MergeZ(voxels, sizes, i + 1)
        ELSE IF /\ can_merge_mesh(voxels[<<x, y, z>>], voxels[<<x, y, z - 1>>])
                /\ sizes[<<x, y, z - 1>>].x = sizes[<<x, y, z>>].x
        THEN MergeZ(voxels,
                 [sizes EXCEPT ![<<x, y, z>>].z = @ + sizes[<<x, y, z - 1>>].z,
                               ![<<x, y, z - 1>>] = ZERO],
                 i + 1)
        ELSE MergeZ(voxels, sizes, i + 1)

RECURSIVE MergeY(_, _, _)
MergeY(voxels, sizes, i) ==
    LET n == CHUNK_SIZE - 1
        x == i \div (CHUNK_SIZE * n)
        z == (i \div n) % CHUNK_SIZE
        y == 1 + (i % n)
    IN  IF n = 0 \/ i >= CHUNK_SIZE * CHUNK_SIZE * n THEN sizes
        ELSE IF sizes[<<x, y, z>>] = ZERO \/ sizes[<<x, y - 1, z>>] = ZERO
        THEN MergeY(voxels, sizes, i + 1)
        ELSE IF /\ can_merge_mesh(voxels[<<x, y, z>>], voxels[<<x, y - 1, z>>])
                /\ sizes[<<x, y - 1, z>>].x = sizes[<<x, y, z>>].x
                /\ sizes[<<x, y - 1, z>>].z = sizes[<<x, y, z>>].z
        THEN MergeY(voxels,
                 [sizes EXCEPT ![<<x, y, z>>].y = @ + sizes[<<x, y - 1, z>>].y,
                               ![<<x, y - 1, z>>] = ZERO],
                 i + 1)
        ELSE MergeY(voxels, sizes, i + 1)

\* the sizes array of greedy_meshing after its three merge passes
MergedSizes(voxels) ==
    MergeY(voxels, MergeZ(voxels, MergeX(voxels, [c \in Cells |-> ONE], 0), 0), 0)

\* The faces greedy_meshing adds for the cell (x, y, z) whose merged size is
\* s, in the source's order: top, bottom, left, right, front, back.
EmitCell(chunk, s, mesh, x, y, z) ==
    LET v == chunk.voxels
        offset == VecAdd(Vec3(chunk.index.x * CHUNK_SIZE,
                              chunk.index.y * CHUNK_SIZE,
                              chunk.index.z * CHUNK_SIZE), Vec3(x, y, z))
        xs == (1 + x - s.x) .. x
        ys == (1 + y - s.y) .. y
        zs == (1 + z - s.z) .. z
        top == y = CHUNK_SIZE - 1
                 \/ \E z1 \in zs, x1 \in xs : v[<<x1, y + 1, z1>>] = 0
        bottom == 1 + y - s.y = 0
                 \/ \E z1 \in zs, x1 \in xs : v[<<x1, y - s.y, z1>>] = 0
        left == 1 + x - s.x = 0
                 \/ \E z1 \in zs, y1 \in ys : v[<<x - s.x, y1, z1>>] = 0
        right == x = CHUNK_SIZE - 1
                 \/ \E z1 \in zs, y1 \in ys : v[<<x + 1, y1, z1>>] = 0
        front == z = CHUNK_SIZE - 1
                 \/ \E x1 \in xs, y1 \in ys : v[<<x1, y1, z + 1>>] = 0
        back == 1 + z - s.z = 0
                 \/ \E x1 \in xs, y1 \in ys : v[<<x1, y1, z - s.z>>] = 0
        m1 == IF top
              THEN add_face(mesh, TOP_FACE,
                       VecAdd(offset, Vec3(-(s.x - 1), 0, -(s.z - 1))),
                       Vec3(s.x, 1, s.z))
              ELSE mesh
        m2 == IF bottom
              THEN add_face(m1, BOTTOM_FACE,
                       VecAdd(VecAdd(offset, Vec3(-(s.x - 1), 0, -(s.z - 1))),
                              Vec3(0, -(s.y - 1), 0)),
                       Vec3(s.x, 1, s.z))
              ELSE m1
        m3 == IF left
              THEN add_face(m2, LEFT_FACE,
                       VecAdd(VecAdd(offset, Vec3(0, -(s.y - 1), -(s.z - 1))),
                              Vec3(-(s.x - 1), 0, 0)),
                       Vec3(1, s.y, s.z))
              ELSE m2
        m4 == IF right
              THEN add_face(m3, RIGHT_FACE,
                       VecAdd(offset, Vec3(0, -(s.y - 1), -(s.z - 1))),
                       Vec3(1, s.y, s.z))
              ELSE m3
        m5 == IF front
              THEN add_face(m4, FRONT_FACE,
                       VecAdd(offset, Vec3(-(s.x - 1), -(s.y - 1), 0)),
                       Vec3(s.x, s.y, 1))
              ELSE m4
        m6 == IF back
              THEN add_face(m5, BACK_FACE,
                       VecAdd(VecAdd(offset, Vec3(-(s.x - 1), -(s.y - 1), 0)),
                              Vec3(0, 0, -(s.z - 1))),
                       Vec3(s.x, s.y, 1))
              ELSE m5
    IN  m6

\* the emitting loop nest without its return for an empty voxel
RECURSIVE EmitFaces_EmptyToo(_, _, _, _)
EmitFaces_EmptyToo(chunk, sizes, mesh, i) ==
    LET y == i \div (CHUNK_SIZE * CHUNK_SIZE)
        z == (i \div CHUNK_SIZE) % CHUNK_SIZE
        x == i % CHUNK_SIZE
    IN  IF i >= CHUNK_SIZE * CHUNK_SIZE * CHUNK_SIZE THEN mesh
        ELSE IF sizes[<<x, y, z>>] = ZERO
        THEN EmitFaces_EmptyToo(chunk, sizes, mesh, i + 1)
        ELSE EmitFaces_EmptyToo(chunk, sizes,
                 EmitCell(chunk, sizes[<<x, y, z>>], mesh, x, y, z), i + 1)

\* the emitting loop nest of greedy_meshing: y outermost, then z, then x
RECURSIVE EmitFaces(_, _, _, _)
EmitFaces(chunk, sizes, mesh, i) ==
    LET y == i \div (CHUNK_SIZE * CHUNK_SIZE)
        z == (i \div CHUNK_SIZE) % CHUNK_SIZE
        x == i % CHUNK_SIZE
    IN  IF i >= CHUNK_SIZE * CHUNK_SIZE * CHUNK_SIZE THEN mesh
        ELSE IF chunk.voxels[<<x, y, z>>] = 0 \/ sizes[<<x, y, z>>] = ZERO
        THEN EmitFaces(chunk, sizes, mesh, i + 1)
        ELSE EmitFaces(chunk, sizes,
                 EmitCell(chunk, sizes[<<x, y, z>>], mesh, x, y, z), i + 1)

greedy_meshing(chunk) ==
    EmitFaces(chunk, MergedSizes(chunk.voxels), MeshDataNew, 0)

\* combine_meshes without its index_start += mesh.positions.len()
RECURSIVE CombineFrom_FixedStart(_, _, _, _)
CombineFrom_FixedStart(meshes, k, mesh_data, index_start) ==
    IF k > Len(meshes) THEN mesh_data
    ELSE CombineFrom_FixedStart(meshes, k + 1,
             [positions |-> mesh_data.positions \o meshes[k].positions,
              normals |-> mesh_data.normals \o meshes[k].normals,
              uvs |-> mesh_data.uvs \o meshes[k].uvs,
              indices |-> mesh_data.indices \o
                  [j \in 1 .. Len(meshes[k].indices) |->
                      meshes[k].indices[j] + index_start]],
             index_start)

\* Combine multiple meshes into one mesh
RECURSIVE CombineFrom(_, _, _, _)
CombineFrom(meshes, k, mesh_data, index_start) ==
    IF k > Len(meshes) THEN mesh_data
    ELSE CombineFrom(meshes, k + 1,
             [positions |-> mesh_data.positions \o meshes[k].positions,
              normals |-> mesh_data.normals \o meshes[k].normals,
              uvs |-> mesh_data.uvs \o meshes[k].uvs,
              indices |-> mesh_data.indices \o
                  [j \in 1 .. Len(meshes[k].indices) |->
                      meshes[k].indices[j] + index_start]],
             index_start + Len(meshes[k].positions))

combine_meshes(meshes) == CombineFrom(meshes, 1, MeshDataNew, 0)

\* Vec3::length_squared(a - b), in 1 / WeldGrid^2
LengthSquared(a, b) ==
    (a.x - b.x) * (a.x - b.x) + (a.y - b.y) * (a.y - b.y) + (a.z - b.z) * (a.z - b.z)

\* the first j, from 0, with length_squared(position - dest.positions[j])
\* < threshold; Len(positions) when there is none.  Both sides of the
\* comparison are taken in 1 / WeldGrid^2.
FirstNear(positions, position, threshold) ==
    LET near == { j \in 1 .. Len(positions) :
                    LengthSquared(position, positions[j]) < threshold * WeldGrid }
    IN  IF near = {} THEN Len(positions)
        ELSE (CHOOSE j \in near : \A k \in near : j <= k) - 1

\* the first loop of merge_vertex from source vertex i (from 1) on;
\* st: [dest: MeshData, vertex_map: a sequence, vertex i at place i]
RECURSIVE WeldFrom(_, _, _, _)
WeldFrom(source, i, threshold, st) ==
    IF i > Len(source.positions) THEN st
    ELSE LET j == FirstNear(st.dest.positions, source.positions[i], threshold)
             found == j < Len(st.dest.positions)
         IN  WeldFrom(source, i + 1, threshold,
                 [dest |-> IF found THEN st.dest
                           ELSE [st.dest EXCEPT
                                    !.positions = Append(@, source.positions[i]),
                                    !.normals = Append(@, source.normals[i])],
                  vertex_map |-> Append(st.vertex_map, j)])

merge_vertex(source, threshold) ==
    LET st == WeldFrom(source, 1, threshold,
                       [dest |-> MeshDataNew, vertex_map |-> << >>])
    IN  [st.dest EXCEPT
            !.indices = [k \in 1 .. Len(source.indices) |->
                            st.vertex_map[source.indices[k] + 1]]]

world == << voxel_data, chunk_entities, chunk_meshes_update_queue,
            voxel_modify_queue, column_meshes, column_mesh, render,
            voxel_material_loaded >>
commands == << cmd_spawn, cmd_column_mesh, cmd_bundle >>
history == << last_load, streamed, moved, marks, drained_marks, rebuilt, dropped,
             drained_edits, before_edits >>
vars == << camera_pos, world, commands, stage, ran, panicked, edit_budget,
          history, ray, call, scheduled, cmd_despawn, evicted >>

\* the systems main adds to Update that touch the voxel world
Systems == { "update_column_meshes", "load_chunks_around",
             "handle_chunk_meshes_update_queue", "create_array_texture",
             "handle_voxel_modify_queue", "hit_voxel" }

\* The two systems that only bring input in (the texture's load state, the
\* player's edits) are run first, in this order: run later in the frame,
\* either has the effect it has when run first in the next frame.
InputSystems == << "create_array_texture", "hit_voxel" >>

RunsBefore(system) ==
    { InputSystems[i] : i \in { j \in 1 .. Len(InputSystems) :
        \E k \in j .. Len(InputSystems) : InputSystems[k] = system /\ j < k } }

\* A Handle<Mesh> is held as the chunks_mesh_data its asset was combined
\* from, each entry as the ChunkData greedy_meshing was given; the empty
\* list is Default::default(), which names no asset.
DefaultHandle == << >>

\* the MeshData of the asset a handle names
MeshOf(handle) ==
    combine_meshes([i \in 1 .. Len(handle) |-> greedy_meshing(handle[i])])

\* the Chunk entities setup spawns
SetupChunks ==
    { [x |-> x, y |-> y, z |-> z] :
        x \in 0 .. INIT_WORLD_SIZE - 1, y \in Levels, z \in 0 .. INIT_WORLD_SIZE - 1 }

\* Vec3::new(0.0, 128.0, 5.0) of the camera bundle, in the scaled world:
\* half way up column (0, 0)
CameraStart == Vec3(0, (CHUNK_SIZE * CHUNK_LIMIT_Y) \div 2, 0)

\* load_chunks_around walking the levels around the camera's own
Around_Altitude(chunk_index) ==
    { [x |-> chunk_index.x + dx, y |-> chunk_index.y + dy, z |-> chunk_index.z + dz] :
        dx \in -SIGHT_RANGE .. SIGHT_RANGE, dy \in -SIGHT_RANGE .. SIGHT_RANGE,
        dz \in -SIGHT_RANGE .. SIGHT_RANGE }

\* the coordinates load_chunks_around walks for a camera chunk
Around(chunk_index) ==
    { [x |-> chunk_index.x + dx, y |-> y, z |-> chunk_index.z + dz] :
        dx \in -SIGHT_RANGE .. SIGHT_RANGE, y \in Levels,
        dz \in -SIGHT_RANGE .. SIGHT_RANGE }

\* update_column_meshes content with any chunk of the column
ColumnComplete_Any(vd, col) ==
    Cardinality({ i \in Levels :
        [x |-> col.x, y |-> i, z |-> col.z] \in DOMAIN vd }) > 0

\* chunk_num == CHUNK_LIMIT_Y in update_column_meshes
ColumnComplete(vd, col) ==
    Cardinality({ i \in Levels :
        [x |-> col.x, y |-> i, z |-> col.z] \in DOMAIN vd }) = CHUNK_LIMIT_Y

\* the chunks update_column_meshes meshes for a column, in the order it
\* pushes their meshes on chunks_mesh_data: those it finds, from level 0 up
ColumnChunks(vd, col) ==
    LET found == SelectSeq([i \in 1 .. CHUNK_LIMIT_Y |->
                               [x |-> col.x, y |-> i - 1, z |-> col.z]],
                           LAMBDA index : index \in DOMAIN vd)
    IN  [k \in 1 .. Len(found) |-> vd[found[k]]]

RayIdle == [pc |-> "idle"]

CallIdle == [pc |-> "idle"]

\* no despawn is waiting; conflict: a command of this frame inserts on an
\* entity that another command of this frame despawns
NoDespawn == [chunks |-> {}, columns |-> {}, conflict |-> FALSE]

Running == panicked = ""

\* everything but the camera, the Chunk entities and the raycaster is empty
\* when Startup begins
Blank ==
    /\ voxel_data = << >>
    /\ chunk_meshes_update_queue = {}
    /\ voxel_modify_queue = << >>
    /\ column_meshes = {}
    /\ column_mesh = << >>
    /\ render = << >>
    /\ voxel_material_loaded = FALSE
    /\ cmd_spawn = EmptyBag
    /\ cmd_column_mesh = {}
    /\ cmd_bundle = << >>
    /\ stage = "PreUpdate"
    /\ ran = {}
    /\ last_load = {}
    /\ streamed = {}
    /\ moved = FALSE
    /\ marks = << >>
    /\ drained_marks = << >>
    /\ rebuilt = << >>
    /\ dropped = {}
    /\ drained_edits = << >>
    /\ before_edits = << >>
    /\ call = CallIdle
    /\ cmd_despawn = NoDespawn
    /\ evicted = {}

\* the state setup leaves behind
Init ==
    /\ Blank
    /\ scheduled = Systems
    /\ camera_pos = CameraStart
    /\ chunk_entities = SetToBag(SetupChunks)
    /\ panicked = ""
    /\ edit_budget = MaxEdits
    /\ ray = RayIdle

\* A panic in a system ends the process: nothing of its state is left.
Abort(system) ==
    /\ voxel_data' = << >>
    /\ chunk_meshes_update_queue' = {}
    /\ voxel_modify_queue' = << >>
    /\ column_meshes' = {}
    /\ column_mesh' = << >>
    /\ render' = << >>
    /\ voxel_material_loaded' = FALSE
    /\ cmd_spawn' = EmptyBag
    /\ cmd_column_mesh' = {}
    /\ cmd_bundle' = << >>
    /\ stage' = "PreUpdate"
    /\ ran' = {}
    /\ last_load' = {}
    /\ streamed' = {}
    /\ moved' = FALSE
    /\ marks' = << >>
    /\ drained_marks' = << >>
    /\ rebuilt' = << >>
    /\ dropped' = {}
    /\ drained_edits' = << >>
    /\ before_edits' = << >>
    /\ camera_pos' = CameraStart
    /\ chunk_entities' = EmptyBag
    /\ panicked' = system
    /\ edit_budget' = 0
    /\ ray' = RayIdle
    /\ call' = CallIdle
    /\ scheduled' = scheduled
    /\ cmd_despawn' = NoDespawn
    /\ evicted' = {}

(***************************************************************************)
(* PreUpdate: gen_chunks_data.                                             *)
(***************************************************************************)
\* or_insert_with with its insert in the update queue for level 0 only
Marked_Ground(fresh) == { i \in fresh : i.y = 0 }

\* the chunks of fresh whose generation marks their column
Marked(fresh) == fresh

\* gen_chunks_data with insert in the place of entry().or_insert_with
Vacant_Every(entities, vd) == BagToSet(entities)

\* the Chunk entities whose index is a vacant entry of VoxelData.chunks
Vacant(entities, vd) == BagToSet(entities) \ DOMAIN vd

GenChunksData ==
    /\ Running
    /\ stage = "PreUpdate"
    /\ LET fresh == Vacant(chunk_entities, voxel_data)
           marked == { ColumnOf(i) : i \in Marked(fresh) }
       IN  /\ voxel_data' = [i \in DOMAIN voxel_data \cup fresh |->
                                IF i \in fresh THEN ChunkDataNew(i) ELSE voxel_data[i]]
           /\ chunk_meshes_update_queue' = chunk_meshes_update_queue \cup marked
           /\ marks' = [c \in DOMAIN marks \cup marked |->
                           (IF c \in DOMAIN marks THEN marks[c] ELSE 0)
                           + Cardinality({ i \in Marked(fresh) : ColumnOf(i) = c })]
    /\ streamed' = last_load
    /\ drained_edits' = << >>
    /\ before_edits' = << >>
    /\ stage' = "Update"
    /\ ran' = {}
    /\ UNCHANGED << camera_pos, chunk_entities, voxel_modify_queue, column_meshes,
                    column_mesh, render, voxel_material_loaded, commands, panicked,
                    edit_budget, last_load, moved, drained_marks, rebuilt,
                    dropped, ray, call, scheduled, cmd_despawn, evicted >>

(***************************************************************************)
(* Update.  main orders none of its Update systems, so they run in any     *)
(* order, each once a frame; their Commands are applied when all have run. *)
(***************************************************************************)
CanRun(system) ==
    /\ Running
    /\ stage = "Update"
    /\ system \notin ran
    /\ IF \E i \in 1 .. Len(InputSystems) : InputSystems[i] = system
       THEN ran = RunsBefore(system)
       ELSE \A i \in 1 .. Len(InputSystems) : InputSystems[i] \in ran

Runs(system) ==
    /\ CanRun(system)
    /\ ran' = ran \cup {system}

\* the dirty columns update_column_meshes rebuilds
Rebuilds(cm, vd) ==
    { col \in DOMAIN cm : cm[col].dirty /\ ColumnComplete(vd, col) }

\* update_column_meshes without its column_mesh.dirty = false
UpdatedColumnMesh_StaysDirty(cm, vd, col) ==
    IF cm[col].dirty /\ ColumnComplete(vd, col)
    THEN [column |-> cm[col].column, dirty |-> TRUE,
          mesh |-> ColumnChunks(vd, cm[col].column)]
    ELSE cm[col]

\* a ColumnMesh after update_column_meshes has looked at it
UpdatedColumnMesh(cm, vd, col) ==
    IF cm[col].dirty /\ ColumnComplete(vd, col)
    THEN [column |-> cm[col].column, dirty |-> FALSE,
          mesh |-> ColumnChunks(vd, cm[col].column)]
    ELSE cm[col]

UpdateColumnMeshes ==
    /\ Runs("update_column_meshes")
    /\ IF ~voxel_material_loaded
       THEN UNCHANGED << column_mesh, cmd_bundle, rebuilt >>
       ELSE LET done == Rebuilds(column_mesh, voxel_data)
            IN  /\ column_mesh' = [col \in DOMAIN column_mesh |->
                                      UpdatedColumnMesh(column_mesh, voxel_data, col)]
                /\ cmd_bundle' = [col \in DOMAIN cmd_bundle \cup done |->
                                     IF col \in done
                                     THEN column_mesh'[col].mesh ELSE cmd_bundle[col]]
                /\ rebuilt' = [col \in DOMAIN rebuilt |->
                                  IF col \in done /\ rebuilt[col] < 2
                                  THEN rebuilt[col] + 1 ELSE rebuilt[col]]
    /\ UNCHANGED << camera_pos, voxel_data, chunk_entities, chunk_meshes_update_queue,
                    voxel_modify_queue, column_meshes, render, voxel_material_loaded,
                    cmd_spawn, cmd_column_mesh, stage, panicked, edit_budget,
                    last_load, streamed, moved, marks, drained_marks, dropped,
                    drained_edits, before_edits, ray, call, scheduled, cmd_despawn, evicted >>

\* the Chunk entities load_chunks_around asks for
ChunksToLoad(pos, vd) ==
    { i \in Around(get_chunk_index(pos)) : i \notin DOMAIN vd }

LoadChunksAround ==
    /\ Runs("load_chunks_around")
    /\ cmd_spawn' = cmd_spawn (+) SetToBag(ChunksToLoad(camera_pos, voxel_data))
    /\ last_load' = { get_chunk_index(camera_pos) }
    /\ UNCHANGED << camera_pos, world, cmd_column_mesh, cmd_bundle, stage, panicked,
                    edit_budget, streamed, moved, marks, drained_marks, rebuilt,
                    dropped, drained_edits, before_edits, ray, call, scheduled, cmd_despawn, evicted >>

\* the queue handle_chunk_meshes_update_queue leaves behind
DrainedQueue(queue) == {}

HandleChunkMeshesUpdateQueue ==
    /\ Runs("handle_chunk_meshes_update_queue")
    /\ column_meshes' = column_meshes \cup chunk_meshes_update_queue
    /\ cmd_column_mesh' = cmd_column_mesh \cup chunk_meshes_update_queue
    /\ chunk_meshes_update_queue' = DrainedQueue(chunk_meshes_update_queue)
    /\ drained_marks' = [c \in DOMAIN drained_marks \cup chunk_meshes_update_queue |->
                            IF c \in chunk_meshes_update_queue
                            THEN marks[c] ELSE drained_marks[c]]
    /\ marks' = [c \in DOMAIN marks \ chunk_meshes_update_queue |-> marks[c]]
    /\ dropped' = (dropped \ chunk_meshes_update_queue) \cup
           { c \in chunk_meshes_update_queue : ~ColumnComplete(voxel_data, c) }
    /\ UNCHANGED << camera_pos, voxel_data, chunk_entities, voxel_modify_queue,
                    column_mesh, render, voxel_material_loaded, cmd_spawn, cmd_bundle,
                    stage, panicked, edit_budget, last_load, streamed, moved,
                    rebuilt, drained_edits, before_edits, ray, call, scheduled, cmd_despawn, evicted >>

\* The texture asset finishes loading at a time the asset server chooses.
CreateArrayTexture ==
    /\ Runs("create_array_texture")
    /\ \E load_state_loaded \in BOOLEAN :
           voxel_material_loaded' = (voxel_material_loaded \/ load_state_loaded)
    /\ UNCHANGED << camera_pos, voxel_data, chunk_entities, chunk_meshes_update_queue,
                    voxel_modify_queue, column_meshes, column_mesh, render, commands,
                    stage, panicked, edit_budget, history, ray, call, scheduled, cmd_despawn, evicted >>

(***************************************************************************)
(* handle_voxel_modify_queue.  The loop body applies one queued edit;      *)
(* get_mut(..).unwrap() panics when the chunk is not in VoxelData.         *)
(***************************************************************************)
\* the loop body without its insert in the update queue
ApplyEdit_NoMark(st, edit) ==
    LET target == pos_to_voxel(edit.pos)
    IN  IF ~st.ok THEN st
        ELSE IF target.chunk \notin DOMAIN st.vd
        THEN [st EXCEPT !.ok = FALSE]
        ELSE [st EXCEPT !.vd[target.chunk].voxels[target.local] = edit.tid]

\* st: [vd: VoxelData.chunks, dirty: the update queue, mk: marks, ok: no panic yet]
ApplyEdit(st, edit) ==
    LET target == pos_to_voxel(edit.pos)
        col == ColumnOf(target.chunk)
    IN  IF ~st.ok THEN st
        ELSE IF target.chunk \notin DOMAIN st.vd
        THEN [st EXCEPT !.ok = FALSE]
        ELSE [vd |-> [st.vd EXCEPT ![target.chunk].voxels[target.local] = edit.tid],
              dirty |-> st.dirty \cup {col},
              mk |-> [c \in DOMAIN st.mk \cup {col} |->
                         (IF c \in DOMAIN st.mk THEN st.mk[c] ELSE 0)
                         + (IF c = col THEN 1 ELSE 0)],
              ok |-> TRUE]

\* the edits of the queue applied from its back to its front
RECURSIVE ApplyEdits_Reversed(_, _, _)
ApplyEdits_Reversed(queue, k, st) ==
    IF k > Len(queue) THEN st
    ELSE ApplyEdit(ApplyEdits_Reversed(queue, k + 1, st), queue[k])

\* the edits of the queue applied from its front to its back
RECURSIVE ApplyEdits(_, _, _)
ApplyEdits(queue, k, st) ==
    IF k > Len(queue) THEN st
    ELSE ApplyEdits(queue, k + 1, ApplyEdit(st, queue[k]))

HandleVoxelModifyQueue ==
    /\ CanRun("handle_voxel_modify_queue")
    /\ LET out == ApplyEdits(voxel_modify_queue, 1,
                      [vd |-> voxel_data, dirty |-> chunk_meshes_update_queue,
                       mk |-> marks, ok |-> TRUE])
       IN  IF out.ok
           THEN /\ voxel_data' = out.vd
                /\ chunk_meshes_update_queue' = out.dirty
                /\ marks' = out.mk
                /\ voxel_modify_queue' = << >>
                /\ drained_edits' = voxel_modify_queue
                /\ before_edits' = IF voxel_modify_queue = << >>
                                   THEN << >> ELSE voxel_data
                /\ ran' = ran \cup {"handle_voxel_modify_queue"}
                /\ UNCHANGED << camera_pos, chunk_entities, column_meshes,
                                column_mesh, render, voxel_material_loaded, commands,
                                stage, panicked, edit_budget, last_load, streamed,
                                moved, drained_marks, rebuilt, dropped, ray, call, scheduled, cmd_despawn, evicted >>
           ELSE Abort("handle_voxel_modify_queue")

(***************************************************************************)
(* submit_edit.  The break/place system (hit_voxel in main) runs once a    *)
(* frame like every Update system and pushes (voxel position, material)    *)
(* on the edit queue; which edits it pushes is the player's choice.        *)
(***************************************************************************)
\* the voxel positions edits are submitted at: one in the upper chunk of the
\* camera's column, one at negative coordinates, one above the height limit
\* (its chunk is never generated)
EditPositions ==
    { Vec3(CHUNK_SIZE - 1, CHUNK_SIZE * CHUNK_LIMIT_Y - 1, 0),
      Vec3(-1, 0, -1),
      Vec3(0, CHUNK_SIZE * CHUNK_LIMIT_Y, 0) }

\* material ids: 0 removes, 1 places
Materials == { 0, 1 }

\* the edits a player submits: both materials in the camera's column, a
\* removal at negative coordinates, and one edit outside the world
Edits ==
    { e \in [pos : EditPositions, tid : Materials] :
        e.tid = 0 \/ e.pos = Vec3(CHUNK_SIZE - 1, CHUNK_SIZE * CHUNK_LIMIT_Y - 1, 0) }

\* the lists of at most n edits
EditBatches(n) == UNION { [1 .. k -> Edits] : k \in 0 .. n }

SubmitEdits ==
    /\ Runs("hit_voxel")
    /\ \E batch \in EditBatches(edit_budget) :
           /\ voxel_modify_queue' = voxel_modify_queue \o batch
           /\ edit_budget' = IF batch = << >> THEN edit_budget ELSE 0
    /\ UNCHANGED << camera_pos, voxel_data, chunk_entities, chunk_meshes_update_queue,
                    column_meshes, column_mesh, render, voxel_material_loaded,
                    commands, stage, panicked, history, ray, call, scheduled, cmd_despawn, evicted >>

(***************************************************************************)
(* End of Update: the Commands of the frame's systems are applied.         *)
(***************************************************************************)
\* the Commands of the frame, applied: despawns take their entities (and
\* every component on them) away, spawns and inserts add theirs
ApplyCommands ==
    /\ chunk_entities' =
           [i \in DOMAIN chunk_entities \ cmd_despawn.chunks |-> chunk_entities[i]]
           (+) cmd_spawn
    /\ column_mesh' =
           [col \in (DOMAIN column_mesh \ cmd_despawn.columns) \cup cmd_column_mesh |->
               IF col \in cmd_column_mesh
               THEN [column |-> col, dirty |-> TRUE, mesh |-> DefaultHandle]
               ELSE column_mesh[col]]
    /\ render' =
           [col \in (DOMAIN render \ cmd_despawn.columns) \cup DOMAIN cmd_bundle |->
               IF col \in DOMAIN cmd_bundle THEN cmd_bundle[col] ELSE render[col]]
    /\ rebuilt' = [col \in DOMAIN rebuilt \cup cmd_column_mesh |->
                      IF col \in cmd_column_mesh THEN 0 ELSE rebuilt[col]]
    /\ cmd_spawn' = EmptyBag
    /\ cmd_column_mesh' = {}
    /\ cmd_bundle' = << >>
    /\ cmd_despawn' = NoDespawn
    /\ stage' = "PostUpdate"
    /\ UNCHANGED << camera_pos, voxel_data, chunk_meshes_update_queue,
                    voxel_modify_queue, column_meshes, voxel_material_loaded, ran,
                    panicked, edit_budget, last_load, streamed, moved, marks,
                    drained_marks, dropped, drained_edits, before_edits, ray, call,
                    scheduled, evicted >>

\* The systems' command queues are applied in an order main does not fix.
\* An insert applied after the despawn of its entity panics.
ApplyDeferred ==
    /\ Running
    /\ stage = "Update"
    /\ ran = scheduled
    /\ \E insert_first \in BOOLEAN :
           IF cmd_despawn.conflict /\ ~insert_first
           THEN Abort("apply_deferred")
           ELSE ApplyCommands

(***************************************************************************)
(* PostUpdate: transform propagation publishes where the camera            *)
(* controller has taken the camera; then the next frame begins.            *)
(***************************************************************************)
\* the camera keeps its place or crosses into a neighbouring chunk along x
CameraMoves(pos) ==
    { p \in { pos, [pos EXCEPT !.x = @ + CHUNK_SIZE], [pos EXCEPT !.x = @ - CHUNK_SIZE] } :
        get_chunk_index(p).x \in -MaxTravel .. 0 }

PropagateTransforms ==
    /\ Running
    /\ stage = "PostUpdate"
    /\ \E p \in CameraMoves(camera_pos) :
           /\ camera_pos' = p
           /\ moved' = (moved \/ p # camera_pos)
    /\ stage' = "PreUpdate"
    /\ UNCHANGED << world, commands, ran, panicked, edit_budget, last_load, streamed,
                    marks, drained_marks, rebuilt, dropped, drained_edits, before_edits, ray, call, scheduled, cmd_despawn, evicted >>

Next ==
    \/ GenChunksData
    \/ UpdateColumnMeshes
    \/ LoadChunksAround
    \/ HandleChunkMeshesUpdateQueue
    \/ CreateArrayTexture
    \/ HandleVoxelModifyQueue
    \/ SubmitEdits
    \/ ApplyDeferred
    \/ PropagateTransforms

Spec == Init /\ [][Next]_vars

\* The App runs its schedules frame after frame, and in a frame every
\* system once: as long as no system has panicked a step is taken.
SpecFair == Spec /\ WF_vars(Next)

(***************************************************************************)
(* get_intersected_voxels, one loop iteration a step.  A point is held in  *)
(* units of 1 / RayGrid, a range likewise.  The arithmetic of the f32      *)
(* values is exact; a time t is [big, n, d]: n / d when big = 0, else      *)
(* big * f32::MAX / RayGrid, which is f32::MAX for big = RayGrid and       *)
(* infinity (what a sum above f32::MAX rounds to) for big > RayGrid.       *)
(***************************************************************************)
F32_MAX == [big |-> RayGrid, n |-> 0, d |-> 1]
F32_INFINITY == [big |-> RayGrid + 1, n |-> 0, d |-> 1]

Rational(n, d) == [big |-> 0, n |-> n, d |-> d]

\* a < b
Less(a, b) ==
    IF a.big = 0 /\ b.big = 0 THEN a.n * b.d < b.n * a.d ELSE a.big < b.big

\* a + b, for the sums the loop makes
Plus(a, b) ==
    IF a.big = 0 /\ b.big = 0
    THEN IF a.d % b.d = 0
         THEN Rational(a.n + b.n * (a.d \div b.d), a.d)
         ELSE Rational(a.n * b.d + b.n * a.d, a.d * b.d)
    ELSE IF a.big = 0 /\ a.n = 0 THEN b
    ELSE IF b.big = 0 /\ b.n = 0 THEN a
    ELSE IF a.big = 0 THEN b
    ELSE IF b.big = 0 THEN a
    ELSE F32_INFINITY

\* t > 1.0
AboveOne(t) == t.big > 0 \/ t.n > t.d

\* t_delta * frac, frac = k / RayGrid in 0 .. 1
Scaled(t_delta, k) ==
    IF t_delta.big = 0 THEN Rational(t_delta.n * k, t_delta.d * RayGrid)
    ELSE IF k = 0 THEN Rational(0, 1)
    ELSE [big |-> (t_delta.big * k) \div RayGrid, n |-> 0, d |-> 1]

\* pos.floor(), per axis, in voxels
to_voxel_position(pos) ==
    [x |-> pos.x \div RayGrid, y |-> pos.y \div RayGrid, z |-> pos.z \div RayGrid]

\* the length of a direction whose length is a whole number, 0 otherwise
Length(direction) ==
    LET sq == direction.x * direction.x + direction.y * direction.y
              + direction.z * direction.z
    IN  IF \E l \in 1 .. sq : l * l = sq
        THEN CHOOSE l \in 1 .. sq : l * l = sq ELSE 0

\* +1, -1, or 0: the sign of a component of the normalized direction (a
\* zero direction normalizes to NaN, which is neither above nor below 0)
StepOf(component) ==
    IF component > 0 THEN 1 ELSE IF component < 0 THEN -1 ELSE 0

\* f32::min(step / (end_point - start_point), f32::MAX), or f32::MAX
TDelta(component, direction, range) ==
    IF StepOf(component) # 0
    THEN Rational(Length(direction) * RayGrid, Abs(component) * range)
    ELSE F32_MAX

\* the first value of t_max on an axis
TMax(component, direction, range, start, start_voxel) ==
    IF StepOf(component) > 0
    THEN Scaled(TDelta(component, direction, range),
                RayGrid - start + start_voxel * RayGrid)
    ELSE Scaled(TDelta(component, direction, range),
                start - start_voxel * RayGrid)

\* the state of the call when it reaches its loop
RayEntered(start_point, direction, range) ==
    LET start_voxel == to_voxel_position(start_point)
    IN  [pc |-> "loop",
         start_point |-> start_point,
         direction |-> direction,
         range |-> range,
         step |-> [x |-> StepOf(direction.x), y |-> StepOf(direction.y),
                   z |-> StepOf(direction.z)],
         t_delta |-> [x |-> TDelta(direction.x, direction, range),
                      y |-> TDelta(direction.y, direction, range),
                      z |-> TDelta(direction.z, direction, range)],
         t_max |-> [x |-> TMax(direction.x, direction, range,
                               start_point.x, start_voxel.x),
                    y |-> TMax(direction.y, direction, range,
                               start_point.y, start_voxel.y),
                    z |-> TMax(direction.z, direction, range,
                               start_point.z, start_voxel.z)],
         current_voxel |-> start_voxel,
         intersected |-> << start_voxel >>]

\* the axis one iteration of the loop advances on
AxisToStep(t_max) ==
    IF Less(t_max.x, t_max.y)
    THEN IF Less(t_max.x, t_max.z) THEN "x" ELSE "z"
    ELSE IF Less(t_max.y, t_max.z) THEN "y" ELSE "z"

\* range as usize * 3 is above usize::MAX: a build with overflow checks
\* (the dev profile) panics there, one without (the release profile) wraps
CapOverflows(range) == AsUsize(range \div RayGrid) * 3 > USIZE_MAX

\* range as usize * 3, wrapping
IterationCap(range) == (AsUsize(range \div RayGrid) * 3) % (USIZE_MAX + 1)

\* the call after one more iteration of its loop
RayIterated(r) ==
    IF Len(r.intersected) >= IterationCap(r.range)
    THEN [r EXCEPT !.pc = "done"]
    ELSE LET axis == AxisToStep(r.t_max)
             current_voxel ==
                 [r.current_voxel EXCEPT ![axis] = @ + r.step[axis]]
             t_max == [r.t_max EXCEPT ![axis] = Plus(@, r.t_delta[axis])]
         IN  IF AboveOne(t_max.x) /\ AboveOne(t_max.y) /\ AboveOne(t_max.z)
             THEN [r EXCEPT !.pc = "done", !.current_voxel = current_voxel,
                            !.t_max = t_max]
             ELSE [r EXCEPT !.current_voxel = current_voxel, !.t_max = t_max,
                            !.intersected = Append(@, current_voxel)]

\* start points: every point of the grid in the voxels (0, 0, 0) and
\* (-1, -1, -1)
RayStarts ==
    { [x |-> b * RayGrid + fx, y |-> b * RayGrid + fy, z |-> b * RayGrid + fz] :
        b \in { -1, 0 }, fx \in 0 .. RayGrid - 1, fy \in 0 .. RayGrid - 1,
        fz \in 0 .. RayGrid - 1 }

\* directions: along the axes, two of length 5 across them, and none
RayDirections ==
    { Vec3(1, 0, 0), Vec3(-1, 0, 0), Vec3(0, 1, 0), Vec3(0, -1, 0),
      Vec3(0, 0, 1), Vec3(0, 0, -1), Vec3(3, 4, 0), Vec3(0, -4, 3),
      Vec3(0, 0, 0) }

\* the least range whose iteration cap does not fit a usize
HugeRange == (USIZE_MAX \div 3 + 1) * RayGrid

\* ranges from a fraction of a voxel up, and the huge one
RayRanges == (1 .. MaxRange * RayGrid) \cup {HugeRange}

RayCall ==
    /\ ray.pc = "idle"
    /\ \E start_point \in RayStarts, direction \in RayDirections,
          range \in RayRanges :
           ray' = RayEntered(start_point, direction, range)
    /\ UNCHANGED << camera_pos, world, commands, stage, ran, panicked,
                    edit_budget, history, call, scheduled, cmd_despawn, evicted >>

RayStep ==
    /\ ray.pc = "loop"
    /\ \E overflow_checks \in BOOLEAN :
           ray' = IF overflow_checks /\ CapOverflows(ray.range)
                  THEN [ray EXCEPT !.pc = "panicked"]
                  ELSE RayIterated(ray)
    /\ UNCHANGED << camera_pos, world, commands, stage, ran, panicked,
                    edit_budget, history, call, scheduled, cmd_despawn, evicted >>

RayReturn ==
    /\ ray.pc = "done"
    /\ ray' = RayIdle
    /\ UNCHANGED << camera_pos, world, commands, stage, ran, panicked,
                    edit_budget, history, call, scheduled, cmd_despawn, evicted >>

RayNext ==
    \/ RayCall
    \/ RayStep
    \/ RayReturn

SpecRay == Init /\ [][RayNext]_vars

(***************************************************************************)
(* The two meshers called on one chunk: greedy_meshing and the per-voxel   *)
(* default_mesh, for every grid of empty cells and two block types.        *)
(***************************************************************************)
\* the values of a cell: empty and two block types
GridMaterials == {0, 1, 2}

ChunkGrids == [Cells -> GridMaterials]

\* the chunk at the origin and one at negative and positive coordinates
MeshIndices == { ZERO, Vec3(-1, 1, 0) }

MeshCall ==
    /\ call.pc = "idle"
    /\ \E voxels \in ChunkGrids, index \in MeshIndices :
           LET chunk == [level |-> 0, index |-> index, voxels |-> voxels]
           IN  call' = [pc |-> "meshed", chunk |-> chunk,
                        greedy |-> greedy_meshing(chunk),
                        naive |-> default_mesh(chunk)]
    /\ UNCHANGED << camera_pos, world, commands, stage, ran, panicked,
                    edit_budget, history, ray, scheduled, cmd_despawn, evicted >>

CallReturn ==
    /\ call.pc # "idle"
    /\ call' = CallIdle
    /\ UNCHANGED << camera_pos, world, commands, stage, ran, panicked,
                    edit_budget, history, ray, scheduled, cmd_despawn, evicted >>

NextMesh ==
    \/ MeshCall
    \/ CallReturn

SpecMesh == Init /\ [][NextMesh]_vars

(***************************************************************************)
(* combine_meshes called on a list of meshes: the meshes greedy_meshing    *)
(* makes of the chunks of two generated columns, and the empty mesh.       *)
(***************************************************************************)
MeshPool ==
    { greedy_meshing(ChunkDataNew([x |-> x, y |-> y, z |-> 0])) :
        x \in 0 .. 1, y \in Levels } \cup {MeshDataNew}

\* the lists of at most n meshes
MeshLists(n) == UNION { [1 .. k -> MeshPool] : k \in 0 .. n }

CombineCall ==
    /\ call.pc = "idle"
    /\ \E meshes \in MeshLists(MaxMeshes) :
           call' = [pc |-> "combined", meshes |-> meshes,
                    out |-> combine_meshes(meshes)]
    /\ UNCHANGED << camera_pos, world, commands, stage, ran, panicked,
                    edit_budget, history, ray, scheduled, cmd_despawn, evicted >>

NextCombine ==
    \/ CombineCall
    \/ CallReturn

SpecCombine == Init /\ [][NextCombine]_vars

(***************************************************************************)
(* ChunkData::new called for one chunk index after another.                *)
(***************************************************************************)
\* the lowest level whose altitude offset does not fit an i32
HighLevel == (I32_MAX + 1) \div CHUNK_SIZE

\* chunk indices around the origin, from below altitude 0 to above the
\* terrain, and far above it
TerrainIndices ==
    { [x |-> x, y |-> y, z |-> z] :
        x \in -2 .. 2, y \in (-1 .. CHUNK_LIMIT_Y) \cup {HighLevel}, z \in -2 .. 2 }

TerrainCall ==
    /\ call.pc = "idle"
    /\ \E index \in TerrainIndices :
           call' = [pc |-> "generated", index |-> index,
                    chunk |-> ChunkDataNew(index)]
    /\ UNCHANGED << camera_pos, world, commands, stage, ran, panicked,
                    edit_budget, history, ray, scheduled, cmd_despawn, evicted >>

NextTerrain ==
    \/ TerrainCall
    \/ CallReturn

SpecTerrain == Init /\ [][NextTerrain]_vars

(***************************************************************************)
(* hit_voxel, the break/place system, as main runs it: it casts a ray from *)
(* the camera along its forward direction and walks the voxels the ray     *)
(* crosses; chunks.get(..).unwrap() panics when the chunk of one of them   *)
(* is not in VoxelData.  camera_pos is held to the voxel; where in the     *)
(* voxel the camera is, where it looks and what the mouse does are inputs. *)
(***************************************************************************)
\* the loop of get_intersected_voxels run to its end
RECURSIVE RayLoop(_)
RayLoop(r) == IF r.pc = "loop" THEN RayLoop(RayIterated(r)) ELSE r.intersected

get_intersected_voxels(start_point, direction, range) ==
    RayLoop(RayEntered(start_point, direction, range))

\* The loop over voxel_positions from its k-th entry on: ok is FALSE when an
\* unwrap() panics, pushed holds the edit the loop pushes, if any.
RECURSIVE TargetScan(_, _, _, _, _)
TargetScan(voxel_positions, k, previous, vd, breaking) ==
    IF k > Len(voxel_positions) THEN [ok |-> TRUE, pushed |-> << >>]
    ELSE LET voxel_position == voxel_positions[k]
             target == pos_to_voxel(voxel_position)
         IN  IF target.chunk \notin DOMAIN vd
             THEN [ok |-> FALSE, pushed |-> << >>]
             ELSE IF vd[target.chunk].voxels[target.local] # 0
             THEN [ok |-> TRUE,
                   pushed |-> << IF breaking
                                 THEN [pos |-> voxel_position, tid |-> 0]
                                 ELSE [pos |-> previous, tid |-> 1] >>]
             ELSE TargetScan(voxel_positions, k + 1, voxel_position, vd, breaking)

\* what one run of hit_voxel does to the edit queue
Targeted(translation, forward, left_released, right_pressed, vd) ==
    LET voxel_positions ==
            get_intersected_voxels(translation, forward, INTERACT_DISTANCE * RayGrid)
    IN  IF voxel_positions = << >> THEN [ok |-> TRUE, pushed |-> << >>]
        ELSE IF left_released
        THEN TargetScan(voxel_positions, 1, voxel_positions[1], vd, TRUE)
        ELSE IF right_pressed
        THEN TargetScan(voxel_positions, 1, voxel_positions[1], vd, FALSE)
        ELSE [ok |-> TRUE, pushed |-> << >>]

\* the points of the grid in the voxel the camera is in
Translations(pos) ==
    { [x |-> pos.x * RayGrid + fx, y |-> pos.y * RayGrid + fy,
       z |-> pos.z * RayGrid + fz] :
        fx \in 0 .. RayGrid - 1, fy \in 0 .. RayGrid - 1, fz \in 0 .. RayGrid - 1 }

\* where the camera looks: along the axes and down across them.  A forward
\* vector is never zero; Vec3(3, 4, 0) is left out because from some of these
\* points two of its t_max are equal here and unequal once rounded to f32.
Forwards == RayDirections \ {ZERO, Vec3(3, 4, 0)}

\* the mouse buttons answer while the player has edits left
Clicks == IF edit_budget > 0 THEN BOOLEAN ELSE {FALSE}

HitVoxelWith(translation, forward, left_released, right_pressed) ==
    /\ CanRun("hit_voxel")
    /\ LET out == Targeted(translation, forward, left_released, right_pressed,
                           voxel_data)
       IN  IF out.ok
           THEN /\ voxel_modify_queue' = voxel_modify_queue \o out.pushed
                /\ edit_budget' = edit_budget - Len(out.pushed)
                /\ ran' = ran \cup {"hit_voxel"}
                /\ UNCHANGED << camera_pos, voxel_data, chunk_entities,
                                chunk_meshes_update_queue, column_meshes,
                                column_mesh, render, voxel_material_loaded,
                                commands, stage, panicked, history, ray, call, scheduled, cmd_despawn, evicted >>
           ELSE Abort("hit_voxel")

HitVoxel ==
    \E translation \in Translations(camera_pos), forward \in Forwards,
       left_released \in Clicks, right_pressed \in Clicks :
        HitVoxelWith(translation, forward, left_released, right_pressed)

\* the voxels the camera flies to: in the ground, at its start, at the top
\* of the world, all in the column it starts in
FlyTo ==
    { Vec3(0, 0, 0), CameraStart, Vec3(0, CHUNK_SIZE * CHUNK_LIMIT_Y - 1, 0) }

\* PostUpdate with the camera flown to one of these voxels
FlyCamera ==
    /\ Running
    /\ stage = "PostUpdate"
    /\ \E p \in FlyTo :
           /\ camera_pos' = p
           /\ moved' = (moved \/ p # camera_pos)
    /\ stage' = "PreUpdate"
    /\ UNCHANGED << world, commands, ran, panicked, edit_budget, last_load, streamed,
                    marks, drained_marks, rebuilt, dropped, drained_edits, before_edits, ray, call, scheduled, cmd_despawn, evicted >>

NextTarget ==
    \/ GenChunksData
    \/ UpdateColumnMeshes
    \/ LoadChunksAround
    \/ HandleChunkMeshesUpdateQueue
    \/ CreateArrayTexture
    \/ HandleVoxelModifyQueue
    \/ HitVoxel
    \/ ApplyDeferred
    \/ FlyCamera

\* the state setup leaves behind, with the clicks of the run
InitTarget ==
    /\ Blank
    /\ scheduled = Systems
    /\ camera_pos = CameraStart
    /\ chunk_entities = SetToBag(SetupChunks)
    /\ panicked = ""
    /\ edit_budget = MaxClicks
    /\ ray = RayIdle

SpecTarget == InitTarget /\ [][NextTarget]_vars

(***************************************************************************)
(* The same application with one more Chunk entity at its start: Chunk is  *)
(* a public component, and a collaborator has spawned the bottom chunk of  *)
(* a column just outside the camera's sight.  Its column stays incomplete  *)
(* until the camera comes near.  No edits are submitted.                   *)
(***************************************************************************)
LoneChunk == [x |-> -(SIGHT_RANGE + 1), y |-> 0, z |-> 0]

LoneColumn == ColumnOf(LoneChunk)

InitColumn ==
    /\ Blank
    /\ scheduled = Systems
    /\ camera_pos = CameraStart
    /\ chunk_entities = SetToBag(SetupChunks \cup {LoneChunk})
    /\ panicked = ""
    /\ edit_budget = 0
    /\ ray = RayIdle

SpecColumn == InitColumn /\ [][Next]_vars

(***************************************************************************)
(* The application with a camera that also climbs and dives: below the     *)
(* world, at its start, above the top level.  No edits are submitted.      *)
(***************************************************************************)
Altitudes == { -1, CameraStart.y, CHUNK_SIZE * CHUNK_LIMIT_Y }

\* PostUpdate with the camera taken along x and to one of the altitudes
RoamCamera ==
    /\ Running
    /\ stage = "PostUpdate"
    /\ \E q \in CameraMoves(camera_pos), altitude \in Altitudes :
           LET p == [q EXCEPT !.y = altitude]
           IN  /\ camera_pos' = p
               /\ moved' = (moved \/ p # camera_pos)
    /\ stage' = "PreUpdate"
    /\ UNCHANGED << world, commands, ran, panicked, edit_budget, last_load, streamed,
                    marks, drained_marks, rebuilt, dropped, drained_edits,
                    before_edits, ray, call, scheduled, cmd_despawn, evicted >>

NextRoam ==
    \/ GenChunksData
    \/ UpdateColumnMeshes
    \/ LoadChunksAround
    \/ HandleChunkMeshesUpdateQueue
    \/ CreateArrayTexture
    \/ HandleVoxelModifyQueue
    \/ SubmitEdits
    \/ ApplyDeferred
    \/ RoamCamera

\* the state setup leaves behind, for a player who submits no edit
InitRoam ==
    /\ Blank
    /\ scheduled = Systems
    /\ camera_pos = CameraStart
    /\ chunk_entities = SetToBag(SetupChunks)
    /\ panicked = ""
    /\ edit_budget = 0
    /\ ray = RayIdle

SpecRoam == InitRoam /\ [][NextRoam]_vars

(***************************************************************************)
(* pos_to_voxel, called on its own: a call and its return.                 *)
(***************************************************************************)
\* the coordinate from which floor(coordinate / CHUNK_SIZE) is above i32
PastI32 == (I32_MAX + 1) * CHUNK_SIZE

\* voxel coordinates MaxCoord chunks around 0, and around both ends of the
\* coordinates whose chunk an i32 holds
Coordinates ==
    (-MaxCoord * CHUNK_SIZE .. MaxCoord * CHUNK_SIZE)
    \cup (-PastI32 - 2 .. -PastI32 + 1) \cup (PastI32 - 2 .. PastI32 + 1)

VoxelPositions ==
    { Vec3(x, y, z) : x \in Coordinates, y \in Coordinates, z \in {-1, 0} }

PosToVoxelCall ==
    /\ call.pc = "idle"
    /\ \E pos \in VoxelPositions :
           call' = [pc |-> "resolved", pos |-> pos, out |-> pos_to_voxel(pos)]
    /\ UNCHANGED << camera_pos, world, commands, stage, ran, panicked, edit_budget,
                    history, ray, scheduled, cmd_despawn, evicted >>

NextVoxel ==
    \/ PosToVoxelCall
    \/ CallReturn

SpecVoxel == Init /\ [][NextVoxel]_vars

(***************************************************************************)
(* merge_vertex, called on its own: a call and its return.                 *)
(***************************************************************************)
\* vertex positions: two a quarter apart along x, one off them on the
\* diagonal, one a voxel away
WeldPoints == { Vec3(0, 0, 0), Vec3(1, 0, 0), Vec3(1, 1, 0), Vec3(WeldGrid, 0, 0) }

\* the triangle lists over n vertices: one triangle, and two sharing an edge
WeldIndices(n) == IF n = 3 THEN << 0, 1, 2 >> ELSE << 0, 1, 2, 2, 1, 3 >>

\* well-formed meshes of three or four vertices; the normal and the
\* texture coordinate of a vertex are told apart by its place
WeldMeshes ==
    { [positions |-> positions,
       normals |-> [i \in 1 .. Len(positions) |-> NORMALS[i]],
       uvs |-> [i \in 1 .. Len(positions) |-> UVS[i]],
       indices |-> WeldIndices(Len(positions))] :
        positions \in [1 .. 3 -> WeldPoints] \cup [1 .. 4 -> WeldPoints] }

Thresholds == -1 .. MaxThreshold

MergeVertexCall ==
    /\ call.pc = "idle"
    /\ \E source \in WeldMeshes, threshold \in Thresholds :
           call' = [pc |-> "welded", source |-> source, threshold |-> threshold,
                    out |-> merge_vertex(source, threshold)]
    /\ UNCHANGED << camera_pos, world, commands, stage, ran, panicked, edit_budget,
                    history, ray, scheduled, cmd_despawn, evicted >>

NextWeld ==
    \/ MergeVertexCall
    \/ CallReturn

SpecWeld == Init /\ [][NextWeld]_vars

(***************************************************************************)
(* remove_chunk, added to Update beside the systems main adds.  It reads   *)
(* the world as the systems before it in the frame left it: an entity      *)
(* spawned, or a ColumnMesh inserted, by a command not applied yet is not  *)
(* in its queries.                                                         *)
(***************************************************************************)
\* the test of both loops of remove_chunk
OutOfSight(index, chunk_index) ==
    \/ Abs(index.x - chunk_index.x) > SIGHT_RANGE
    \/ Abs(index.z - chunk_index.z) > SIGHT_RANGE

RemoveChunk ==
    /\ "remove_chunk" \in scheduled
    /\ Runs("remove_chunk")
    /\ LET chunk_index == get_chunk_index(camera_pos)
           chunks == { i \in BagToSet(chunk_entities) : OutOfSight(i, chunk_index) }
           columns == { col \in DOMAIN column_mesh :
                          OutOfSight(column_mesh[col].column, chunk_index) }
       IN  /\ voxel_data' = [i \in DOMAIN voxel_data \ chunks |-> voxel_data[i]]
           /\ column_meshes' = column_meshes \ columns
           /\ cmd_despawn' =
                  [chunks |-> cmd_despawn.chunks \cup chunks,
                   columns |-> cmd_despawn.columns \cup columns,
                   conflict |-> \/ cmd_despawn.conflict
                                \/ columns \cap cmd_column_mesh # {}
                                \/ columns \cap DOMAIN cmd_bundle # {}]
           /\ cmd_column_mesh' = cmd_column_mesh \ columns
           /\ cmd_bundle' = [col \in DOMAIN cmd_bundle \ columns |-> cmd_bundle[col]]
           /\ evicted' = evicted \cup (chunks \cap DOMAIN voxel_data)
    /\ UNCHANGED << camera_pos, chunk_entities, chunk_meshes_update_queue,
                    voxel_modify_queue, column_mesh, render, voxel_material_loaded,
                    cmd_spawn, stage, panicked, edit_budget, history, ray, call,
                    scheduled >>

NextEvict ==
    \/ Next
    \/ RemoveChunk

\* setup's block lies within sight of the camera's start (4 chunks against
\* a sight of 8), which the scaled INIT_WORLD_SIZE and SIGHT_RANGE do not
\* keep: the Chunk entities are those of the block that are in sight
InitEvict ==
    /\ Blank
    /\ scheduled = Systems \cup {"remove_chunk"}
    /\ camera_pos = CameraStart
    /\ chunk_entities =
           SetToBag({ i \in SetupChunks :
                        ~OutOfSight(i, get_chunk_index(CameraStart)) })
    /\ panicked = ""
    /\ edit_budget = 0
    /\ ray = RayIdle

SpecEvict == InitEvict /\ [][NextEvict]_vars

(***************************************************************************)
(* Properties of the edit drain.                                           *)
(***************************************************************************)
\* the chunk and the cell a voxel position addresses, by floor division
CellOf(pos) ==
    [chunk |-> [x |-> pos.x \div CHUNK_SIZE, y |-> pos.y \div CHUNK_SIZE,
                z |-> pos.z \div CHUNK_SIZE],
     local |-> << pos.x % CHUNK_SIZE, pos.y % CHUNK_SIZE, pos.z % CHUNK_SIZE >>]

Resident(vd, edit) == CellOf(edit.pos).chunk \in DOMAIN vd

\* the positions in queue of the edits that address cell c of chunk i
Writers(queue, i, c) ==
    { k \in 1 .. Len(queue) :
        CellOf(queue[k].pos).chunk = i /\ CellOf(queue[k].pos).local = c }

Max(S) == CHOOSE n \in S : \A m \in S : m <= n

\* the grid the queue leaves: each cell holds the material of the last
\* edit of the queue that addresses it, any other cell what it held
LastWriterWins(queue, before, after) ==
    /\ DOMAIN after = DOMAIN before
    /\ \A i \in DOMAIN before : \A c \in Cells :
           after[i].voxels[c] =
               IF Writers(queue, i, c) = {}
               THEN before[i].voxels[c]
               ELSE queue[Max(Writers(queue, i, c))].tid

\* the columns of the edits of queue
EditedColumns(queue) ==
    { ColumnOf(CellOf(queue[k].pos).chunk) : k \in 1 .. Len(queue) }

\* C1: a drain of the edit queue that finds an edit whose chunk is not
\* resident does not abort: the edits of resident chunks are applied as if
\* the others were not queued, VoxelWorld and the dirty set are otherwise
\* unchanged, and the edit queue is empty afterwards.
C1_NonResidentEditDropped ==
    [][(HandleVoxelModifyQueue
          /\ \E k \in 1 .. Len(voxel_modify_queue) :
                 ~Resident(voxel_data, voxel_modify_queue[k]))
       => LET kept == SelectSeq(voxel_modify_queue,
                                LAMBDA e : Resident(voxel_data, e))
          IN  /\ panicked' = ""
              /\ voxel_modify_queue' = << >>
              /\ LastWriterWins(kept, voxel_data, voxel_data')
              /\ chunk_meshes_update_queue' =
                     chunk_meshes_update_queue \cup EditedColumns(kept)]_vars

\* C8: after one edit (p, m) of a resident chunk is submitted and the queue
\* drained, the cell p addresses reads m, no other cell of any chunk has
\* changed, and the column of p's chunk is in the dirty set.
C8_EditWritesCell ==
    [][(HandleVoxelModifyQueue
          /\ Len(voxel_modify_queue) = 1
          /\ Resident(voxel_data, voxel_modify_queue[1]))
       => LET edit == voxel_modify_queue[1]
              cell == CellOf(edit.pos)
          IN  /\ panicked' = ""
              /\ DOMAIN voxel_data' = DOMAIN voxel_data
              /\ voxel_data'[cell.chunk].voxels[cell.local] = edit.tid
              /\ \A i \in DOMAIN voxel_data : \A c \in Cells :
                     (i # cell.chunk \/ c # cell.local)
                         => voxel_data'[i].voxels[c] = voxel_data[i].voxels[c]
              /\ ColumnOf(cell.chunk) \in chunk_meshes_update_queue']_vars

\* a removal in a resident chunk has just been drained: the cell held 1,
\* now reads 0 and its column waits in the dirty set
C8_Witness ==
    /\ Running
    /\ Len(drained_edits) = 1
    /\ drained_edits[1].tid = 0
    /\ LET cell == CellOf(drained_edits[1].pos)
       IN  /\ cell.chunk \in DOMAIN voxel_data
           /\ before_edits[cell.chunk].voxels[cell.local] = 1
           /\ voxel_data[cell.chunk].voxels[cell.local] = 0
           /\ ColumnOf(cell.chunk) \in chunk_meshes_update_queue

\* C9: a drain applies the queued edits in submission order: every cell
\* holds afterwards the material of the last queued edit that addresses it,
\* and a cell no queued edit addresses keeps its value.
C9_LastWriterWins ==
    [][(HandleVoxelModifyQueue
          /\ \A k \in 1 .. Len(voxel_modify_queue) :
                 Resident(voxel_data, voxel_modify_queue[k]))
       => /\ panicked' = ""
          /\ LastWriterWins(voxel_modify_queue, voxel_data, voxel_data')]_vars

\* two edits of one cell with different materials have just been drained
\* and the cell reads the material of the second
C9_Witness ==
    /\ Running
    /\ Len(drained_edits) = 2
    /\ drained_edits[1].pos = drained_edits[2].pos
    /\ drained_edits[1].tid # drained_edits[2].tid
    /\ LET cell == CellOf(drained_edits[2].pos)
       IN  /\ cell.chunk \in DOMAIN voxel_data
           /\ voxel_data[cell.chunk].voxels[cell.local] = drained_edits[2].tid

(***************************************************************************)
(* Properties of streaming and of the order of the frame.                  *)
(***************************************************************************)
\* Chebyshev distance of two chunk coordinates in the horizontal plane
Chebyshev(a, b) ==
    IF Abs(a.x - b.x) > Abs(a.z - b.z) THEN Abs(a.x - b.x) ELSE Abs(a.z - b.z)

InSight(i, centre) ==
    Chebyshev(i, centre) <= SIGHT_RANGE /\ i.y \in Levels

\* C2: once the camera has moved and a frame has completed at its place, no
\* chunk further than sight_range from the camera's chunk is resident.
C2_OutOfSightEvicted ==
    (Running /\ moved /\ stage = "PostUpdate")
        => \A i \in DOMAIN voxel_data :
               Chebyshev(i, get_chunk_index(camera_pos)) <= SIGHT_RANGE

\* C3: with the camera at chunk (0, 0, 0) and sight_range 1, once
\* gen_chunks_data has consumed the requests of load_chunks_around the
\* resident coordinates are exactly those within the sight range, and for
\* any camera chunk every coordinate within the sight range is resident.
C3_ExactlyInSight ==
    /\ (Running /\ ~moved /\ streamed # {})
           => DOMAIN voxel_data =
                  { i \in DOMAIN voxel_data \cup Around(get_chunk_index(CameraStart)) :
                        InSight(i, get_chunk_index(CameraStart)) }
    /\ Running => \A centre \in streamed :
           \A i \in Around(centre) : i \in DOMAIN voxel_data

\* C4: in every frame the stages run generate, stream, apply edits, remesh:
\* the edits are never applied after handle_chunk_meshes_update_queue or
\* update_column_meshes of the same frame, and load_chunks_around never
\* runs after the edits have been applied.
C4_FixedStageOrder ==
    [][/\ ("handle_voxel_modify_queue" \notin ran /\ HandleVoxelModifyQueue)
           => /\ "handle_chunk_meshes_update_queue" \notin ran
              /\ "update_column_meshes" \notin ran
       /\ LoadChunksAround => "handle_voxel_modify_queue" \notin ran]_vars

(***************************************************************************)
(* Properties of the dirty queue and of the column meshes.                 *)
(***************************************************************************)
\* update_column_meshes clears the dirty flag of col in this step
RebuildsColumn(col) ==
    /\ UpdateColumnMeshes
    /\ col \in DOMAIN column_mesh
    /\ column_mesh[col].dirty
    /\ ~column_mesh'[col].dirty

\* every level of the column is resident
WholeColumn(vd, col) ==
    \A y \in Levels : [x |-> col.x, y |-> y, z |-> col.z] \in DOMAIN vd

\* C5: a column that was drained from the dirty queue while it was not
\* mesh-complete is rebuilt later only if it has been marked again (by a
\* chunk generation or an applied edit) after that drain; without a new mark
\* it is never rebuilt.
C5_RebuiltOnlyIfMarkedAgain ==
    [][\A col \in dropped :
           RebuildsColumn(col) => (col \in DOMAIN marks /\ marks[col] >= 1)]_vars

\* the column of the lone chunk was drained while incomplete, has become
\* complete and has been rebuilt
C5_Witness ==
    /\ Running
    /\ LoneColumn \in dropped
    /\ LoneColumn \in DOMAIN column_mesh
    /\ ~column_mesh[LoneColumn].dirty
    /\ rebuilt[LoneColumn] = 1

\* C6: however many times a column was marked before a drain of the dirty
\* queue, the drain leads to one rebuild of the column, never to a second,
\* and the dirty queue is empty after every drain.
C6_OneRebuildPerDrain ==
    /\ [](\A col \in DOMAIN column_mesh :
              /\ drained_marks[col] >= 1
              /\ rebuilt[col] = IF column_mesh[col].dirty THEN 0 ELSE 1)
    /\ [][/\ HandleChunkMeshesUpdateQueue => chunk_meshes_update_queue' = {}
          /\ (UpdateColumnMeshes /\ voxel_material_loaded)
                 => \A col \in DOMAIN column_mesh :
                        WholeColumn(voxel_data, col) => rebuilt'[col] = 1]_vars

\* a column marked by the generation of its chunks and by an edit before one
\* drain has been rebuilt once
C6_Witness ==
    /\ Running
    /\ \E col \in DOMAIN column_mesh :
           /\ drained_marks[col] > CHUNK_LIMIT_Y
           /\ rebuilt[col] = 1
           /\ ~column_mesh[col].dirty

\* C7: update_column_meshes builds a column's mesh only when every level of
\* the column is resident, the mesh is then the combination of the meshes
\* of the chunks of levels 0 .. CHUNK_LIMIT_Y - 1 in this order, and a dirty
\* column with a missing level is left as it is.
C7_MeshOnlyWhenComplete ==
    [][UpdateColumnMeshes =>
         \A col \in DOMAIN column_mesh :
            LET built == \/ column_mesh'[col] # column_mesh[col]
                         \/ col \in DOMAIN cmd_bundle' \ DOMAIN cmd_bundle
            IN  /\ built =>
                     /\ WholeColumn(voxel_data, col)
                     /\ MeshOf(column_mesh'[col].mesh) =
                            combine_meshes([k \in 1 .. CHUNK_LIMIT_Y |->
                                greedy_meshing(voxel_data[
                                    [x |-> col.x, y |-> k - 1, z |-> col.z]])])
                     /\ col \in DOMAIN cmd_bundle'
                     /\ cmd_bundle'[col] = column_mesh'[col].mesh
                /\ (column_mesh[col].dirty /\ ~WholeColumn(voxel_data, col)) =>
                     /\ column_mesh'[col] = column_mesh[col]
                     /\ col \notin DOMAIN cmd_bundle']_vars

\* the column of the lone chunk, left alone while its upper level was
\* missing, has its mesh installed now that both levels are resident
C7_Witness ==
    /\ Running
    /\ LoneColumn \in DOMAIN render
    /\ LoneColumn \in DOMAIN column_mesh
    /\ render[LoneColumn] = column_mesh[LoneColumn].mesh
    /\ Len(render[LoneColumn]) = CHUNK_LIMIT_Y
    /\ \A k \in 1 .. CHUNK_LIMIT_Y : render[LoneColumn][k].index.y = k - 1

(***************************************************************************)
(* Properties of the raycaster.                                            *)
(***************************************************************************)
AxisAligned(direction) ==
    Cardinality({ a \in {"x", "y", "z"} : direction[a] # 0 }) = 1

\* C10: for a direction along one axis the call returns floor(range)
\* voxels: the voxel of the start point first, then each entry one unit step
\* along that axis from the entry before it, the other two coordinates
\* unchanged.
C10_AxisAlignedSequence ==
    (ray.pc = "done" /\ AxisAligned(ray.direction))
        => /\ Len(ray.intersected) = ray.range \div RayGrid
           /\ ray.intersected[1] = to_voxel_position(ray.start_point)
           /\ \A k \in 1 .. Len(ray.intersected) - 1 :
                  ray.intersected[k + 1] =
                      VecAdd(ray.intersected[k], ray.step)

\* t_max is above 1.0 on all three axes
RayExhausted(t_max) == AboveOne(t_max.x) /\ AboveOne(t_max.y) /\ AboveOne(t_max.z)

\* C11: a call of get_intersected_voxels never fails and holds at most
\* max(1, 3 * floor(range)) voxels at any time; every iteration of its loop
\* either appends one voxel or ends the call, so the call terminates; and the
\* iteration after which all three t_max are above 1.0 ends the call without
\* appending the voxel it reached.
C11_RayBounded ==
    /\ [](/\ ray.pc # "panicked"
          /\ ray.pc \in {"loop", "done"} =>
                 Len(ray.intersected) <= Max({1, 3 * (ray.range \div RayGrid)}))
    /\ [][RayStep =>
            /\ \/ ray'.pc = "done" /\ ray'.intersected = ray.intersected
               \/ ray'.pc = "loop" /\ Len(ray'.intersected) = Len(ray.intersected) + 1
            /\ (ray'.t_max # ray.t_max /\ RayExhausted(ray'.t_max))
                   => ray'.pc = "done"]_vars

(***************************************************************************)
(* Properties of targeting.                                                *)
(***************************************************************************)
\* the voxel at pos is resident and not empty
Solid(vd, pos) ==
    /\ CellOf(pos).chunk \in DOMAIN vd
    /\ vd[CellOf(pos).chunk].voxels[CellOf(pos).local] # 0

\* the place in the sequence of its first solid voxel, 0 when it has none
FirstSolid(voxel_positions, vd) ==
    LET solid == { k \in 1 .. Len(voxel_positions) : Solid(vd, voxel_positions[k]) }
    IN  IF solid = {} THEN 0 ELSE CHOOSE k \in solid : \A j \in solid : k <= j

\* the voxels the camera's ray crosses
Aimed(translation, forward) ==
    get_intersected_voxels(translation, forward, INTERACT_DISTANCE * RayGrid)

\* C12: when the ray reaches a solid voxel, a break submits exactly one
\* edit (v, 0), v the first solid voxel of the sequence, and a place submits
\* exactly one edit (e, 1), e the last voxel before v in the sequence: e is
\* empty and is not v.
C12_TargetsFirstSolid ==
    [][\A translation \in Translations(camera_pos), forward \in Forwards,
          left_released \in BOOLEAN, right_pressed \in BOOLEAN :
           (/\ HitVoxelWith(translation, forward, left_released, right_pressed)
            /\ panicked' = ""
            /\ FirstSolid(Aimed(translation, forward), voxel_data) > 0)
           => LET voxel_positions == Aimed(translation, forward)
                  hit == FirstSolid(voxel_positions, voxel_data)
              IN  /\ left_released =>
                         voxel_modify_queue' = Append(voxel_modify_queue,
                             [pos |-> voxel_positions[hit], tid |-> 0])
                  /\ (~left_released /\ right_pressed) =>
                         /\ hit > 1
                         /\ voxel_modify_queue' = Append(voxel_modify_queue,
                                [pos |-> voxel_positions[hit - 1], tid |-> 1])
                         /\ ~Solid(voxel_data, voxel_positions[hit - 1])
                         /\ voxel_positions[hit - 1] # voxel_positions[hit]]_vars

\* C13: hit_voxel never panics; it adds at most one edit to the edit queue,
\* and when the ray reaches no solid voxel it leaves VoxelData, the edit
\* queue and the dirty queue as they were.
C13_TargetingNeverFails ==
    /\ [](panicked # "hit_voxel")
    /\ [][\A translation \in Translations(camera_pos), forward \in Forwards,
             left_released \in BOOLEAN, right_pressed \in BOOLEAN :
              HitVoxelWith(translation, forward, left_released, right_pressed)
              => /\ Len(voxel_modify_queue') <= Len(voxel_modify_queue) + 1
                 /\ FirstSolid(Aimed(translation, forward), voxel_data) = 0
                        => UNCHANGED << voxel_data, voxel_modify_queue,
                                        chunk_meshes_update_queue >>]_vars

(***************************************************************************)
(* Properties of the meshers.                                              *)
(***************************************************************************)
Min(S) == CHOOSE n \in S : \A m \in S : n <= m

\* the k-th quad of a mesh (k from 0): its normal and the two opposite
\* corners of the rectangle its four vertices span
QuadAt(mesh, k) ==
    LET at == { mesh.positions[4 * k + i] : i \in 1 .. 4 }
    IN  [normal |-> mesh.normals[4 * k + 1],
         lo |-> Vec3(Min({ p.x : p \in at }), Min({ p.y : p \in at }),
                     Min({ p.z : p \in at })),
         hi |-> Vec3(Max({ p.x : p \in at }), Max({ p.y : p \in at }),
                     Max({ p.z : p \in at }))]

QuadCount(mesh) == Len(mesh.positions) \div 4

Quads(mesh) == { QuadAt(mesh, k) : k \in 0 .. QuadCount(mesh) - 1 }

\* rectangle u lies inside rectangle q, both in one plane, normals equal
Covers(q, u) ==
    /\ q.normal = u.normal
    /\ q.lo.x <= u.lo.x /\ q.lo.y <= u.lo.y /\ q.lo.z <= u.lo.z
    /\ u.hi.x <= q.hi.x /\ u.hi.y <= q.hi.y /\ u.hi.z <= q.hi.z

CellAdd(c, n) == << c[1] + n.x, c[2] + n.y, c[3] + n.z >>

\* the cell beside c is outside the chunk or empty
Open(chunk, c, n) ==
    CellAdd(c, n) \notin Cells \/ chunk.voxels[CellAdd(c, n)] = 0

\* the face with normal n of the box of cells from << lo >> to << hi >>
BoxFace(chunk, lo, hi, n) ==
    LET base == Vec3(chunk.index.x * CHUNK_SIZE, chunk.index.y * CHUNK_SIZE,
                     chunk.index.z * CHUNK_SIZE)
        near == VecAdd(base, Vec3(lo[1], lo[2], lo[3]))
        far == VecAdd(base, Vec3(hi[1] + 1, hi[2] + 1, hi[3] + 1))
    IN  [normal |-> n,
         lo |-> Vec3(IF n.x > 0 THEN far.x ELSE near.x,
                     IF n.y > 0 THEN far.y ELSE near.y,
                     IF n.z > 0 THEN far.z ELSE near.z),
         hi |-> Vec3(IF n.x < 0 THEN near.x ELSE far.x,
                     IF n.y < 0 THEN near.y ELSE far.y,
                     IF n.z < 0 THEN near.z ELSE far.z)]

Directions == { NORMALS[d] : d \in 1 .. 6 }

\* the unit faces of solid voxels whose neighbour is empty or outside
VisibleFaces(chunk) ==
    UNION { { BoxFace(chunk, c, c, n) : n \in { n \in Directions : Open(chunk, c, n) } } :
              c \in { c \in Cells : chunk.voxels[c] # 0 } }

\* C14: every unit face of a solid voxel whose neighbour in that direction
\* is empty or outside the chunk (these are exactly the quads of
\* default_mesh) lies inside a quad of greedy_meshing with the same normal
\* in the same plane.
C14_NeverUnderDraws ==
    call.pc = "meshed"
        => /\ Quads(call.naive) = VisibleFaces(call.chunk)
           /\ \A u \in VisibleFaces(call.chunk) :
                  \E q \in Quads(call.greedy) : Covers(q, u)

\* a visible unit face that greedy_meshing draws as part of a larger quad
C14_Witness ==
    /\ call.pc = "meshed"
    /\ \E u \in VisibleFaces(call.chunk) :
           /\ u \notin Quads(call.greedy)
           /\ \E q \in Quads(call.greedy) : Covers(q, u)

\* C15: greedy_meshing emits no more quads, and so no more triangles, than
\* default_mesh does for the same grid; both emit two triangles a quad.
C15_GreedyAtMostNaive ==
    call.pc = "meshed"
        => /\ QuadCount(call.greedy) <= QuadCount(call.naive)
           /\ Len(call.greedy.indices) \div 3 <= Len(call.naive.indices) \div 3
           /\ Len(call.greedy.indices) = 6 * QuadCount(call.greedy)
           /\ Len(call.naive.indices) = 6 * QuadCount(call.naive)

\* a grid greedy_meshing draws with fewer quads than default_mesh
C15_Witness ==
    /\ call.pc = "meshed"
    /\ QuadCount(call.greedy) > 0
    /\ QuadCount(call.greedy) < QuadCount(call.naive)

\* the merged boxes of solid voxels greedy_meshing is left with: the cell
\* with a size other than zero is the far corner of its box
SolidBoxes(chunk) ==
    LET sizes == MergedSizes(chunk.voxels)
    IN  { [lo |-> << c[1] - sizes[c].x + 1, c[2] - sizes[c].y + 1,
                     c[3] - sizes[c].z + 1 >>,
           hi |-> c] :
            c \in { c \in Cells : sizes[c] # ZERO /\ chunk.voxels[c] # 0 } }

\* the cells of box b that touch its face with normal n
BoxLayer(b, n) ==
    { c \in Cells :
        /\ \A a \in 1 .. 3 : b.lo[a] <= c[a] /\ c[a] <= b.hi[a]
        /\ n.x > 0 => c[1] = b.hi[1]
        /\ n.x < 0 => c[1] = b.lo[1]
        /\ n.y > 0 => c[2] = b.hi[2]
        /\ n.y < 0 => c[2] = b.lo[2]
        /\ n.z > 0 => c[3] = b.hi[3]
        /\ n.z < 0 => c[3] = b.lo[3] }

\* the face lies on the chunk boundary or a cell beside it is empty
FaceOpen(chunk, b, n) == \E c \in BoxLayer(b, n) : Open(chunk, c, n)

\* C16: every quad of greedy_meshing is a face of a merged box of solid
\* voxels that lies on the chunk boundary or has an empty cell beside it, and
\* no face is emitted twice.
C16_OnlyOpenFaces ==
    call.pc = "meshed"
        => /\ \A k \in 0 .. QuadCount(call.greedy) - 1 :
                  \E b \in SolidBoxes(call.chunk), n \in Directions :
                      /\ QuadAt(call.greedy, k) = BoxFace(call.chunk, b.lo, b.hi, n)
                      /\ FaceOpen(call.chunk, b, n)
           /\ Cardinality(Quads(call.greedy)) = QuadCount(call.greedy)

\* a grid with an empty merged box and a merged box of more than one voxel
\* one of whose faces, covered by solid voxels, is not emitted
C16_Witness ==
    /\ call.pc = "meshed"
    /\ \E c \in Cells :
           call.chunk.voxels[c] = 0 /\ MergedSizes(call.chunk.voxels)[c] # ZERO
    /\ \E b \in SolidBoxes(call.chunk), n \in Directions :
           /\ b.lo # b.hi
           /\ ~FaceOpen(call.chunk, b, n)
           /\ BoxFace(call.chunk, b.lo, b.hi, n) \notin Quads(call.greedy)

\* the vertices, and the indices, of the first k meshes of a list
RECURSIVE VertexTotal(_, _)
VertexTotal(meshes, k) ==
    IF k = 0 THEN 0 ELSE VertexTotal(meshes, k - 1) + Len(meshes[k].positions)

RECURSIVE IndexTotal(_, _)
IndexTotal(meshes, k) ==
    IF k = 0 THEN 0 ELSE IndexTotal(meshes, k - 1) + Len(meshes[k].indices)

\* every index of the mesh names one of its vertices
WellFormed(mesh) ==
    \A j \in 1 .. Len(mesh.indices) :
        mesh.indices[j] \in 0 .. Len(mesh.positions) - 1

C19_SolidUpToLand ==
    call.pc = "generated"
        => LET i == call.index
               v == call.chunk.voxels
           IN  /\ \A c \in Cells :
                      LET land == Land(i.x * CHUNK_SIZE + c[1], i.z * CHUNK_SIZE + c[3])
                      IN  /\ land \in LAND_LOW .. LAND_HIGH
                          /\ v[c] = IF i.y * CHUNK_SIZE + c[2] <= land THEN 1 ELSE 0
               /\ i.y * CHUNK_SIZE > LAND_HIGH => \A c \in Cells : v[c] = 0
               /\ (i.y + 1) * CHUNK_SIZE - 1 <= LAND_LOW => \A c \in Cells : v[c] = 1

Axes(v) == << v.x, v.y, v.z >>

\* chunk c and local index l are coordinate p resolved by floor division
FloorResolved(p, c, l) ==
    /\ c = p \div CHUNK_SIZE
    /\ 0 <= l /\ l < CHUNK_SIZE
    /\ c * CHUNK_SIZE + l = p

\* the chunk of coordinate p is an i32
ChunkInI32(p) ==
    /\ -(I32_MAX + 1) <= p \div CHUNK_SIZE
    /\ p \div CHUNK_SIZE <= I32_MAX

\* C21 as stated: for every integer voxel position, negative coordinates
\* included, pos_to_voxel returns on each axis the chunk floor(p / CHUNK_SIZE)
\* and a local index l with 0 <= l < CHUNK_SIZE and chunk * CHUNK_SIZE + l = p.
C21_FloorDivision ==
    call.pc = "resolved" =>
        \A a \in 1 .. 3 :
            FloorResolved(Axes(call.pos)[a], Axes(call.out.chunk)[a], call.out.local[a])

\* C21 amended: the same, for every integer voxel position whose chunk
\* coordinates are within i32.
C21_FloorDivisionInI32 ==
    call.pc = "resolved" =>
        \A a \in 1 .. 3 :
            ChunkInI32(Axes(call.pos)[a]) =>
                FloorResolved(Axes(call.pos)[a], Axes(call.out.chunk)[a],
                              call.out.local[a])

\* a resolved position with a negative coordinate that is not on a chunk edge
C21_Witness ==
    /\ call.pc = "resolved"
    /\ call.pos.x < 0
    /\ call.pos.x % CHUNK_SIZE # 0
    /\ ChunkInI32(call.pos.x)
    /\ call.out.chunk.x < 0

(***************************************************************************)
(* Properties of merge_vertex.                                             *)
(***************************************************************************)
\* position a lies within threshold of position b
WithinThreshold(a, b, threshold) ==
    \/ a = b
    \/ threshold >= 0 /\ LengthSquared(a, b) <= threshold * threshold

\* C22: merge_vertex returns as many indices as it is given, every index it
\* returns names a vertex it returns, the k-th index it returns names a
\* vertex within threshold of the vertex the k-th index given named, and
\* the positions, normals and texture coordinates it returns are of one length.
C22_WeldPreservesTopology ==
    call.pc = "welded"
        => LET source == call.source
               out == call.out
           IN  /\ Len(out.indices) = Len(source.indices)
               /\ WellFormed(out)
               /\ \A k \in 1 .. Len(out.indices) :
                      WithinThreshold(out.positions[out.indices[k] + 1],
                                      source.positions[source.indices[k] + 1],
                                      call.threshold)
               /\ Len(out.normals) = Len(out.positions)
               /\ Len(out.uvs) = Len(out.positions)

(***************************************************************************)
(* Properties of residency.                                                *)
(***************************************************************************)
\* C23: no step replaces the grid of a chunk that is and stays in
\* VoxelData: a cell of such a chunk changes only in a drain of the edit
\* queue, to the material of a queued edit that addresses it; generation,
\* streaming and remeshing leave every resident cell as it is.
C23_GeneratedOnce ==
    [][\A i \in DOMAIN voxel_data \cap DOMAIN voxel_data' :
           /\ voxel_data'[i].index = voxel_data[i].index
           /\ \A c \in Cells :
                  voxel_data'[i].voxels[c] # voxel_data[i].voxels[c]
                      => /\ voxel_modify_queue' = << >>
                         /\ "handle_voxel_modify_queue" \in ran'
                         /\ \E k \in Writers(voxel_modify_queue, i, c) :
                                voxel_modify_queue[k].tid = voxel_data'[i].voxels[c]]_vars

\* a generation pass has just run over Chunk entities that include one
\* whose grid an edit changed, and the chunk still holds the edited grid
C23_Witness ==
    /\ panicked = ""
    /\ stage = "Update"
    /\ ran = {}
    /\ \E i \in DOMAIN voxel_data :
           /\ i \in BagToSet(chunk_entities)
           /\ voxel_data[i].voxels # ChunkDataNew(i).voxels

(***************************************************************************)
(* Properties of remeshing under the orders of the Update systems.         *)
(***************************************************************************)
\* the columns of the positions edits are submitted at
EditColumns == { ColumnOf(CellOf(pos).chunk) : pos \in EditPositions }

\* the material is loaded and the edit at the front of the edit queue, the
\* one the next drain applies first, addresses a resident chunk of col,
\* whose levels are all resident
EditPending(col) ==
    /\ Running
    /\ voxel_material_loaded
    /\ voxel_modify_queue # << >>
    /\ Resident(voxel_data, voxel_modify_queue[1])
    /\ ColumnOf(CellOf(voxel_modify_queue[1].pos).chunk) = col
    /\ WholeColumn(voxel_data, col)

\* the material is loaded and col, with all its levels resident, waits in
\* the update queue, where generation or an edit has put it
RemeshPending(col) ==
    /\ Running
    /\ voxel_material_loaded
    /\ col \in chunk_meshes_update_queue
    /\ WholeColumn(voxel_data, col)

\* the edit queue has been drained and the render mesh of col is the one
\* built from the grids VoxelData holds
Installed(col) ==
    /\ Running
    /\ voxel_modify_queue = << >>
    /\ col \in DOMAIN render
    /\ render[col] = ColumnChunks(voxel_data, col)

\* C24: in every order of the Update systems, once the material is loaded,
\* an edit about to be applied to a resident chunk of a complete column,
\* and a complete column generation or an edit has marked, are followed by
\* the installation of the column's mesh built from the grid that holds
\* the edit.
C24_NoRemeshLost ==
    \A col \in EditColumns :
        /\ EditPending(col) ~> Installed(col)
        /\ RemeshPending(col) ~> Installed(col)

(***************************************************************************)
(* Properties of vertical loading.                                         *)
(***************************************************************************)
\* the columns of the chunks in VoxelData
ResidentColumns == { ColumnOf(i) : i \in DOMAIN voxel_data }

\* the Chunk entities alive and those a command not applied yet spawns
Requests == chunk_entities (+) cmd_spawn

\* C25: once a generation pass has run, every column with a chunk in
\* VoxelData has all of its levels 0 .. CHUNK_LIMIT_Y - 1 there, no chunk in
\* VoxelData is of another level, at whatever altitude the camera is, and
\* no chunk index has more than one Chunk entity, spawned or about to be.
C25_ColumnsWhole ==
    /\ stage # "PreUpdate" =>
           /\ \A col \in ResidentColumns : WholeColumn(voxel_data, col)
           /\ \A i \in DOMAIN voxel_data : i.y \in Levels
    /\ \A i \in BagToSet(Requests) : CopiesIn(i, Requests) = 1

\* a generation pass has just run with the camera below or above the
\* levels of the world, and chunks streamed in after setup are resident
C25_Witness ==
    /\ Running
    /\ stage = "Update"
    /\ ran = {}
    /\ get_chunk_index(camera_pos).y \notin Levels
    /\ \E i \in DOMAIN voxel_data :
           /\ i \notin SetupChunks
           /\ i \in Around(get_chunk_index(camera_pos))

====
